---- MODULE Spec2Model ----
(***************************************************************************)
(* Model of the NexaWeb PYXM template engine: the lexer and parser of      *)
(* nexaweb/engine/pyxm_parser.py, the code generator and the LRU           *)
(* TemplateCache of nexaweb/engine/pyxm_compiler.py, and the Template      *)
(* wrapper of nexaweb/engine/template.py.                                  *)
(*                                                                         *)
(* Text is modelled as a sequence of one-character strings, so that the    *)
(* code's scanning, splitting, stripping and substring tests are computed  *)
(* as the code computes them.  Python indices are 0-based: the character   *)
(* at Python index i of s is s[i+1].                                       *)
(***************************************************************************)
EXTENDS Integers, Sequences, FiniteSets, TLC

VARIABLES
    \* PyxmLexer instance (pyxm_parser.py:279-284)
    source, pos, line, column, tokens, lexpc,
    \* TemplateCache instance (pyxm_compiler.py:558-561)
    max_size, _cache, _access_order,
    \* the last call made on the cache and what it returned, and the observer
    \* of the calls: the time of each key's last access, the number of calls,
    \* and the entries that a promoted key must outlive
    call, ret, stamp, clock, promoted,
    \* the threads that share the cache: each one's frame (program counter,
    \* arguments and locals) in TemplateCache.get / TemplateCache.set
    frame,
    \* the template sources that the caller renders and how each is put
    \* together, the Template objects constructed so far (template.py:96-102),
    \* the CompiledTemplate objects created so far (an object's identity is
    \* its index), and the last call made on a Template with its outcome
    inputs, meta, templates, objects, tcall,
    \* the PyxmCompiler instances constructed so far (pyxm_compiler.py:142-144)
    \* and the compilations made on them, in the order of the calls
    compilers, compilations,
    \* TemplateEnvironment instance (template.py:402-406): its filters
    env_filters,
    \* PyxmParser instance (pyxm_parser.py:535-538): the tree of its last parse
    parser_ast

lexvars == <<source, pos, line, column, tokens, lexpc>>
cachevars == <<max_size, _cache, _access_order>>
apivars == <<call, ret, stamp, clock, promoted>>
tplvars == <<inputs, meta, templates, objects, tcall>>
compvars == <<compilers, compilations>>
envvars == <<env_filters>>
parservars == <<parser_ast>>
vars == <<lexvars, cachevars, apivars, frame, tplvars, compvars, envvars, parservars>>

(***************************************************************************)
(* Bounds of the model.                                                    *)
(***************************************************************************)
MaxSrcLen == 3
MaxTokens == 12
MaxCapacity == 2
MaxCalls == 5
MaxOrderLen == 4
MaxTemplates == 2

(***************************************************************************)
(* Text helpers: Python's slicing, str.strip, str.startswith, `in`.        *)
(***************************************************************************)
Min(a, b) == IF a < b THEN a ELSE b

Whitespace == {" ", "\n", "\t", "\r", "\f"}
Lower == {"a","b","c","d","e","f","g","h","i","j","k","l","m",
          "n","o","p","q","r","s","t","u","v","w","x","y","z"}
Upper == {"A","B","C","D","E","F","G","H","I","J","K","L","M",
          "N","O","P","Q","R","S","T","U","V","W","X","Y","Z"}
Digit == {"0","1","2","3","4","5","6","7","8","9"}
Alpha == Lower \cup Upper

\* s[a:b]
Slice(s, a, b) == SubSeq(s, a + 1, Min(b, Len(s)))

\* s[i] when i is in range, "" (no character) otherwise
At(s, i) == IF i >= 0 /\ i < Len(s) THEN s[i + 1] ELSE ""

\* s[p:p+len(lit)] == lit
MatchAt(s, p, lit) == Slice(s, p, p + Len(lit)) = lit

StartsWith(s, lit) == MatchAt(s, 0, lit)

EndsWith(s, lit) == Len(s) >= Len(lit) /\ Slice(s, Len(s) - Len(lit), Len(s)) = lit

\* lit in s
Contains(s, lit) == \E p \in 0..Len(s) : p + Len(lit) <= Len(s) /\ MatchAt(s, p, lit)

\* the first index >= p whose character is not in set (len(s) when there is none)
SpanEnd(s, p, set) ==
    IF p >= Len(s) THEN p
    ELSE CHOOSE e \in p..Len(s) :
             /\ \A i \in (p + 1)..e : s[i] \in set
             /\ (e = Len(s) \/ s[e + 1] \notin set)

\* the least index b <= e such that s[b:e] is all in set
SpanStart(s, e, set) ==
    CHOOSE b \in 0..e :
        /\ \A i \in (b + 1)..e : s[i] \in set
        /\ (b = 0 \/ s[b] \notin set)

\* s.strip()
Strip(s) ==
    LET a == SpanEnd(s, 0, Whitespace)
        b == SpanStart(s, Len(s), Whitespace)
    IN  IF a >= b THEN <<>> ELSE Slice(s, a, b)

\* every text over alphabet A of length at most n
Texts(A, n) == UNION {[1..k -> A] : k \in 0..n}

(***************************************************************************)
(* PyxmLexer.  A cursor c is the lexer's mutable part:                     *)
(* [pos, line, column, tokens].                                            *)
(***************************************************************************)
RECURSIVE PyxmLexer(_, _)
Token(type, value, ln, col) == [type |-> type, value |-> value, line |-> ln, column |-> col]

\* the least member of a set of indices that is not empty
FirstOf(S) == CHOOSE e \in S : \A x \in S : e <= x

\* PyxmLexer._advance called with count: every iteration that finds pos
\* inside the source moves pos by one, a newline starts a line and sets
\* column to 1, any other character adds 1 to column.  The cursor after the
\* loop, from the characters src[pos:e] that it passed:
Advance(src, c, count) ==
    LET e == Min(c.pos + count, Len(src))
        nl == {i \in (c.pos + 1)..e : src[i] = "\n"}
    IN  IF count <= 0 \/ c.pos >= Len(src) THEN c
        ELSE [c EXCEPT !.pos = e,
                       !.line = @ + Cardinality(nl),
                       !.column = IF nl = {} THEN @ + (e - c.pos)
                                  ELSE e - (CHOOSE i \in nl : \A j \in nl : j <= i) + 1]

\* PyxmLexer._add_token
AddToken(c, type, value) ==
    [c EXCEPT !.tokens = Append(@, Token(type, value, c.line, c.column))]

\* PATTERNS: the length of the match of each regular expression at p, -1 for no match
WhitespaceLen(src, p) ==
    LET e == SpanEnd(src, p, Whitespace) IN IF e > p THEN e - p ELSE -1

TagNameLen(src, p) ==
    IF At(src, p) \in Alpha \cup {"_"}
    THEN SpanEnd(src, p + 1, Alpha \cup Digit \cup {"_", "-"}) - p
    ELSE -1

PyOpenLen(src, p) ==
    IF At(src, p) = "<" /\ At(src, p + 1) \in {"p", "P"} /\ At(src, p + 2) \in {"y", "Y"}
    THEN LET e == SpanEnd(src, p + 3, Whitespace)
         IN  IF At(src, e) = ">" THEN e + 1 - p ELSE -1
    ELSE -1

PyCloseLen(src, p) ==
    IF At(src, p) = "<" /\ At(src, p + 1) = "/"
       /\ At(src, p + 2) \in {"p", "P"} /\ At(src, p + 3) \in {"y", "Y"}
    THEN LET e == SpanEnd(src, p + 4, Whitespace)
         IN  IF At(src, e) = ">" THEN e + 1 - p ELSE -1
    ELSE -1

\* "[^"]*" and '[^']*'
QuotedLen(src, p, q) ==
    IF At(src, p) = q
    THEN LET e == SpanEnd(src, p + 1, {src[i] : i \in 1..Len(src)} \ {q})
         IN  IF At(src, e) = q THEN e + 1 - p ELSE -1
    ELSE -1

\* @name, :name, #name: the length of the whole match (prefix included)
BindLen(src, p, prefix, tail) ==
    IF At(src, p) = prefix /\ At(src, p + 1) \in Alpha
    THEN SpanEnd(src, p + 2, tail) - p
    ELSE -1

EventBindLen(src, p) == BindLen(src, p, "@", Alpha \cup Digit \cup {"_"})
AttrBindLen(src, p) == BindLen(src, p, ":", Alpha \cup Digit \cup {"_", "-"})
RefBindLen(src, p) == BindLen(src, p, "#", Alpha \cup Digit \cup {"_"})

\* PyxmLexer._consume_pattern("whitespace")
ConsumeWhitespace(src, c) ==
    LET n == WhitespaceLen(src, c.pos) IN IF n > 0 THEN Advance(src, c, n) ELSE c

\* the loop of PyxmLexer._tokenize_expression: scan to the matching }}
RECURSIVE ExprScan(_, _, _)
ExprScan(src, c, depth) ==
    IF c.pos < Len(src) /\ depth > 0
    THEN IF MatchAt(src, c.pos, <<"{", "{">>)
         THEN ExprScan(src, Advance(src, c, 2), depth + 1)
         ELSE IF MatchAt(src, c.pos, <<"}", "}">>)
              THEN IF depth - 1 > 0
                   THEN ExprScan(src, Advance(src, c, 2), depth - 1)
                   ELSE ExprScan(src, c, depth - 1)
              ELSE ExprScan(src, Advance(src, c, 1), depth)
    ELSE c

\* PyxmLexer._tokenize_expression
tokenize_expression(src, c) ==
    LET c1 == Advance(src, AddToken(c, "EXPR_OPEN", <<"{", "{">>), 2)
        c2 == PyxmLexer("ExprScan", <<src, c1, 1>>)
        content == Strip(Slice(src, c1.pos, c2.pos))
        c3 == AddToken(c2, "EXPR_CONTENT", content)
    IN  Advance(src, AddToken(c3, "EXPR_CLOSE", <<"}", "}">>), 2)

\* the scanning loops of _tokenize_statement and _tokenize_comment:
\* `while self.pos < len(self.source)` advances by one until the closer is
\* at pos, so the loop ends at the first such index, or at the end
ScanTo(src, c, closer) ==
    IF c.pos >= Len(src) THEN c
    ELSE Advance(src, c,
                 FirstOf({e \in c.pos..Len(src) : e = Len(src) \/ MatchAt(src, e, closer)}) - c.pos)

\* PyxmLexer._tokenize_statement
tokenize_statement(src, c) ==
    LET c1 == Advance(src, AddToken(c, "STMT_OPEN", <<"{", "%">>), 2)
        c2 == ScanTo(src, c1, <<"%", "}">>)
        content == Strip(Slice(src, c1.pos, c2.pos))
        c3 == AddToken(c2, "STMT_CONTENT", content)
    IN  Advance(src, AddToken(c3, "STMT_CLOSE", <<"%", "}">>), 2)

\* PyxmLexer._tokenize_comment
tokenize_comment(src, c) ==
    LET c1 == Advance(src, AddToken(c, "COMMENT_OPEN", <<"{", "#">>), 2)
        c2 == ScanTo(src, c1, <<"#", "}">>)
        content == Slice(src, c1.pos, c2.pos)
        c3 == AddToken(c2, "COMMENT_CONTENT", content)
    IN  Advance(src, AddToken(c3, "COMMENT_CLOSE", <<"#", "}">>), 2)

\* the scanning loop of _tokenize_python_block: it ends at the first index
\* where the closing tag matches, or at the end
ScanToPyClose(src, c) ==
    IF c.pos >= Len(src) THEN c
    ELSE Advance(src, c,
                 FirstOf({e \in c.pos..Len(src) :
                             e = Len(src) \/ PyxmLexer("PyCloseLen", <<src, e>>) >= 0}) - c.pos)

\* PyxmLexer._tokenize_python_block
tokenize_python_block(src, c) ==
    LET n  == PyxmLexer("PyOpenLen", <<src, c.pos>>)
        c1 == IF n > 0
              THEN Advance(src, AddToken(c, "PY_BLOCK_OPEN", Slice(src, c.pos, c.pos + n)), n)
              ELSE c
        c2 == PyxmLexer("ScanToPyClose", <<src, c1>>)
        c3 == AddToken(c2, "PY_CONTENT", Slice(src, c1.pos, c2.pos))
        m  == PyxmLexer("PyCloseLen", <<src, c3.pos>>)
    IN  IF m > 0
        THEN Advance(src, AddToken(c3, "PY_BLOCK_CLOSE", Slice(src, c3.pos, c3.pos + m)), m)
        ELSE c3

\* PyxmLexer._tokenize_attr_value
tokenize_attr_value(src, c) ==
    LET c1 == PyxmLexer("ConsumeWhitespace", <<src, c>>)
        d  == QuotedLen(src, c1.pos, "\"")
        s  == QuotedLen(src, c1.pos, "'")
    IN  IF d > 0
        THEN AddToken(Advance(src, c1, d), "ATTR_VALUE", Slice(src, c1.pos + 1, c1.pos + d - 1))
        ELSE IF s > 0
             THEN AddToken(Advance(src, c1, s), "ATTR_VALUE", Slice(src, c1.pos + 1, c1.pos + s - 1))
             ELSE c1

\* the attribute loop of PyxmLexer._tokenize_tag
RECURSIVE TagAttributes(_, _)
TagAttributes(src, c) ==
    IF c.pos < Len(src)
    THEN LET c1 == PyxmLexer("ConsumeWhitespace", <<src, c>>)
             ev == EventBindLen(src, c1.pos)
             bd == AttrBindLen(src, c1.pos)
             rf == RefBindLen(src, c1.pos)
             an == TagNameLen(src, c1.pos)
         IN  IF MatchAt(src, c1.pos, <<"/", ">">>)
             THEN Advance(src, AddToken(c1, "TAG_SELF_CLOSE", <<"/", ">">>), 2)
             ELSE IF MatchAt(src, c1.pos, <<">">>)
             THEN Advance(src, AddToken(c1, "TAG_CLOSE", <<">">>), 1)
             ELSE IF ev > 0
             THEN TagAttributes(src, PyxmLexer("tokenize_attr_value", <<src,
                      Advance(src, AddToken(c1, "EVENT_BIND", Slice(src, c1.pos + 1, c1.pos + ev)), ev)>>))
             ELSE IF bd > 0
             THEN TagAttributes(src, PyxmLexer("tokenize_attr_value", <<src,
                      Advance(src, AddToken(c1, "ATTR_BIND", Slice(src, c1.pos + 1, c1.pos + bd)), bd)>>))
             ELSE IF rf > 0
             THEN TagAttributes(src,
                      Advance(src, AddToken(c1, "REF_BIND", Slice(src, c1.pos + 1, c1.pos + rf)), rf))
             ELSE IF an > 0
             THEN LET c2 == PyxmLexer("ConsumeWhitespace", <<src,
                                AddToken(Advance(src, c1, an), "ATTR_NAME", Slice(src, c1.pos, c1.pos + an))>>)
                  IN  IF MatchAt(src, c2.pos, <<"=">>)
                      THEN TagAttributes(src, PyxmLexer("tokenize_attr_value", <<src,
                               Advance(src, AddToken(c2, "ATTR_EQUALS", <<"=">>), 1)>>))
                      ELSE TagAttributes(src, c2)
             ELSE c1
    ELSE c

\* PyxmLexer._tokenize_tag
tokenize_tag(src, c) ==
    LET c1 == PyxmLexer("ConsumeWhitespace", <<src, c>>)
        n  == TagNameLen(src, c1.pos)
        c2 == IF n > 0
              THEN AddToken(Advance(src, c1, n), "TAG_NAME", Slice(src, c1.pos, c1.pos + n))
              ELSE c1
    IN  PyxmLexer("TagAttributes", <<src, c2>>)

\* the loop of PyxmLexer._tokenize_text: it ends at the first index where a
\* tag or a delimiter starts, or at the end
TextEnd(src, c) ==
    IF c.pos >= Len(src) THEN c
    ELSE Advance(src, c,
                 FirstOf({e \in c.pos..Len(src) :
                             \/ e = Len(src)
                             \/ src[e + 1] = "<"
                             \/ Slice(src, e, e + 2) \in {<<"{", "{">>, <<"{", "%">>, <<"{", "#">>}}) - c.pos)

\* PyxmLexer._tokenize_text
tokenize_text(src, c) ==
    LET c1 == TextEnd(src, c)
    IN  IF c1.pos > c.pos THEN AddToken(c1, "TEXT", Slice(src, c.pos, c1.pos)) ELSE c1

\* which branch of PyxmLexer._next_token is taken at position p
NextTokenBranch(src, p) ==
    IF MatchAt(src, p, <<"{", "{">>) THEN "expr"
    ELSE IF MatchAt(src, p, <<"{", "%">>) THEN "stmt"
    ELSE IF MatchAt(src, p, <<"{", "#">>) THEN "comment"
    ELSE IF PyxmLexer("PyOpenLen", <<src, p>>) > 0 THEN "py"
    ELSE IF MatchAt(src, p, <<"<", "/">>) THEN "tag_end"
    ELSE IF MatchAt(src, p, <<"<">>) THEN "tag"
    ELSE "text"

\* PyxmLexer._next_token
next_token(src, c) ==
    LET b == PyxmLexer("NextTokenBranch", <<src, c.pos>>)
    IN  CASE b = "expr"    -> PyxmLexer("tokenize_expression", <<src, c>>)
          [] b = "stmt"    -> tokenize_statement(src, c)
          [] b = "comment" -> tokenize_comment(src, c)
          [] b = "py"      -> PyxmLexer("tokenize_python_block", <<src, c>>)
          [] b = "tag_end" -> PyxmLexer("tokenize_tag", <<src, AddToken(c, "TAG_END_OPEN", <<"<", "/">>)>>)
          [] b = "tag"     -> PyxmLexer("tokenize_tag", <<src, AddToken(c, "TAG_OPEN", <<"<">>)>>)
          [] OTHER         -> tokenize_text(src, c)

\* PyxmLexer.tokenize run to its end.  _next_token is a function of the source
\* and the position alone, so a call that leaves pos where it was is repeated
\* by the loop `while self.pos < len(self.source)` for ever: "diverges".
RECURSIVE TokenizeFrom(_, _)
TokenizeFrom(src, c) ==
    IF c.pos < Len(src)
    THEN LET c1 == PyxmLexer("next_token", <<src, c>>)
         IN  IF c1.pos = c.pos
             THEN [result |-> "diverges", tokens |-> <<>>]
             ELSE PyxmLexer("TokenizeFrom", <<src, c1>>)
    ELSE [result |-> "ok", tokens |-> Append(c.tokens, Token("EOF", <<>>, c.line, c.column))]

tokenize(src) == PyxmLexer("TokenizeFrom", <<src, [pos |-> 0, line |-> 1, column |-> 1, tokens |-> <<>>]>>)

\* the methods of PyxmLexer that are called from several places, called by name
PyxmLexer(m, a) ==
    CASE m = "TagAttributes" -> TagAttributes(a[1], a[2])
      [] m = "next_token" -> next_token(a[1], a[2])
      [] m = "TokenizeFrom" -> TokenizeFrom(a[1], a[2])
      [] m = "tokenize_python_block" -> tokenize_python_block(a[1], a[2])
      [] m = "tokenize_attr_value" -> tokenize_attr_value(a[1], a[2])
      [] m = "tokenize_expression" -> tokenize_expression(a[1], a[2])
      [] m = "ConsumeWhitespace" -> ConsumeWhitespace(a[1], a[2])
      [] m = "ScanToPyClose" -> ScanToPyClose(a[1], a[2])
      [] m = "ExprScan" -> ExprScan(a[1], a[2], a[3])
      [] m = "PyCloseLen" -> PyCloseLen(a[1], a[2])
      [] m = "PyOpenLen" -> PyOpenLen(a[1], a[2])
      [] m = "tokenize_tag" -> tokenize_tag(a[1], a[2])
      [] m = "NextTokenBranch" -> NextTokenBranch(a[1], a[2])
      [] m = "tokenize" -> tokenize(a[1])

(***************************************************************************)
(* PyxmParser.  An Optional value is <<>> (None) or <<v>>.  A dictionary   *)
(* that is iterated in insertion order is a sequence of <<key, value>>     *)
(* pairs.  An attribute's value is <<>> for True (a bare attribute) or     *)
(* <<text>>.  Every parsing operator returns the parser position reached   *)
(* and err: "" (returned), "SyntaxError" (raised) or "diverges" (a loop of *)
(* the parser that repeats without consuming a token).                     *)
(***************************************************************************)
RECURSIVE PyxmParser(_, _)
Some(v) == <<v>>

LowerSeq == <<"a","b","c","d","e","f","g","h","i","j","k","l","m",
              "n","o","p","q","r","s","t","u","v","w","x","y","z">>
UpperSeq == <<"A","B","C","D","E","F","G","H","I","J","K","L","M",
              "N","O","P","Q","R","S","T","U","V","W","X","Y","Z">>

\* str.lower and str.upper
ToLower(s) ==
    [i \in 1..Len(s) |->
        IF s[i] \in Upper THEN LowerSeq[CHOOSE j \in 1..26 : UpperSeq[j] = s[i]] ELSE s[i]]

ToUpper(s) ==
    [i \in 1..Len(s) |->
        IF s[i] \in Lower THEN UpperSeq[CHOOSE j \in 1..26 : LowerSeq[j] = s[i]] ELSE s[i]]

\* d[k] = v on an insertion-ordered dictionary
PairsPut(d, k, v) ==
    IF \E i \in 1..Len(d) : d[i][1] = k
    THEN [i \in 1..Len(d) |-> IF d[i][1] = k THEN <<k, v>> ELSE d[i]]
    ELSE Append(d, <<k, v>>)

\* PyxmNode
Node(type) ==
    [type |-> type, tag |-> <<>>, attributes |-> <<>>, bindings |-> <<>>,
     events |-> <<>>, refs |-> <<>>, children |-> <<>>, content |-> <<>>,
     condition |-> <<>>, iterator |-> <<>>, line |-> 0, column |-> 0,
     is_self_closing |-> FALSE, is_static |-> FALSE]

\* PyxmNode.add_child
add_child(node, child) == [node EXCEPT !.children = Append(@, child)]

VOID_ELEMENTS ==
    { <<"a","r","e","a">>, <<"b","a","s","e">>, <<"b","r">>, <<"c","o","l">>,
      <<"e","m","b","e","d">>, <<"h","r">>, <<"i","m","g">>, <<"i","n","p","u","t">>,
      <<"l","i","n","k">>, <<"m","e","t","a">>, <<"p","a","r","a","m">>,
      <<"s","o","u","r","c","e">>, <<"t","r","a","c","k">>, <<"w","b","r">> }

\* PyxmParser._current, _peek, _is_at_end
current(toks, p) == IF p < Len(toks) THEN toks[p + 1] ELSE Token("EOF", <<>>, 0, 0)

peek(toks, p) == current(toks, p + 1)

is_at_end(toks, p) == current(toks, p).type = "EOF"

Parsed(node, p, err) == [node |-> node, pos |-> p, err |-> err]

\* three _expect calls in a row: the position reached, or SyntaxError
Expect3(toks, p, t1, t2, t3) ==
    IF current(toks, p).type # t1 THEN [pos |-> p, err |-> "SyntaxError"]
    ELSE IF current(toks, p + 1).type # t2 THEN [pos |-> p + 1, err |-> "SyntaxError"]
    ELSE IF current(toks, p + 2).type # t3 THEN [pos |-> p + 2, err |-> "SyntaxError"]
    ELSE [pos |-> p + 3, err |-> ""]

\* PyxmParser._is_end_tag
is_end_tag(toks, p, name) ==
    /\ current(toks, p).type = "STMT_OPEN"
    /\ peek(toks, p).type = "STMT_CONTENT"
    /\ Strip(peek(toks, p).value) = name

\* PyxmParser._is_elif
is_elif(toks, p) ==
    /\ current(toks, p).type = "STMT_OPEN"
    /\ peek(toks, p).type = "STMT_CONTENT"
    /\ StartsWith(Strip(peek(toks, p).value), <<"e","l","i","f"," ">>)

\* PyxmParser._consume_end_tag
consume_end_tag(toks, p, name) ==
    LET e == Expect3(toks, p, "STMT_OPEN", "STMT_CONTENT", "STMT_CLOSE")
    IN  IF current(toks, p).type = "STMT_OPEN" /\ current(toks, p + 1).type = "STMT_CONTENT"
           /\ Strip(current(toks, p + 1).value) # name
        THEN [pos |-> p + 2, err |-> "SyntaxError"]
        ELSE e

\* PyxmParser._parse_text
parse_text(toks, p) ==
    LET token == current(toks, p)
    IN  Parsed(Some([Node("TEXT") EXCEPT !.content = Some(token.value), !.line = token.line,
                                         !.column = token.column, !.is_static = TRUE]),
               p + 1, "")

\* PyxmParser._parse_expression
parse_expression(toks, p) ==
    LET e == Expect3(toks, p, "EXPR_OPEN", "EXPR_CONTENT", "EXPR_CLOSE")
        content_token == current(toks, p + 1)
    IN  IF e.err # "" THEN Parsed(<<>>, e.pos, e.err)
        ELSE Parsed(Some([Node("EXPRESSION") EXCEPT !.content = Some(content_token.value),
                              !.line = content_token.line, !.column = content_token.column]),
                    e.pos, "")

\* PyxmParser._parse_comment
parse_comment(toks, p) ==
    LET e == Expect3(toks, p, "COMMENT_OPEN", "COMMENT_CONTENT", "COMMENT_CLOSE")
        content_token == current(toks, p + 1)
    IN  IF e.err # "" THEN Parsed(<<>>, e.pos, e.err)
        ELSE Parsed(Some([Node("COMMENT") EXCEPT !.content = Some(content_token.value),
                              !.line = content_token.line]),
                    e.pos, "")

\* PyxmParser._parse_python_block
parse_python_block(toks, p) ==
    LET e == Expect3(toks, p, "PY_BLOCK_OPEN", "PY_CONTENT", "PY_BLOCK_CLOSE")
        content_token == current(toks, p + 1)
    IN  IF e.err # "" THEN Parsed(<<>>, e.pos, e.err)
        ELSE Parsed(Some([Node("PYTHON") EXCEPT !.content = Some(content_token.value),
                              !.line = content_token.line]),
                    e.pos, "")

\* str.split(): the whitespace-separated words of s
RECURSIVE Words(_, _)
Words(s, p) ==
    LET a == SpanEnd(s, p, Whitespace)
        b == SpanEnd(s, a, {s[i] : i \in 1..Len(s)} \ Whitespace)
    IN  IF a >= Len(s) THEN <<>> ELSE <<Slice(s, a, b)>> \o Words(s, b)

\* PyxmParser._parse_slot_block
parse_slot_block(toks, p, content) ==
    LET parts == Words(content, 0)
        name  == IF Len(parts) > 1 THEN parts[2] ELSE <<"d","e","f","a","u","l","t">>
    IN  Parsed(Some([Node("SLOT") EXCEPT !.tag = Some(name)]), p, "")

\* PyxmParser._parse_raw_block: the values of the tokens up to endraw, joined
RECURSIVE RawLoop(_, _, _)
RawLoop(toks, p, content) ==
    IF is_at_end(toks, p) THEN [content |-> content, pos |-> p, err |-> ""]
    ELSE IF is_end_tag(toks, p, <<"e","n","d","r","a","w">>)
         THEN LET e == PyxmParser("consume_end_tag", <<toks, p, <<"e","n","d","r","a","w">>>>)
              IN  [content |-> content, pos |-> e.pos, err |-> e.err]
         ELSE RawLoop(toks, p + 1, content \o current(toks, p).value)

parse_raw_block(toks, p) ==
    LET r == PyxmParser("RawLoop", <<toks, p, <<>>>>)
    IN  IF r.err # "" THEN Parsed(<<>>, r.pos, r.err)
        ELSE Parsed(Some([Node("RAW") EXCEPT !.content = Some(r.content)]), r.pos, "")

\* the statement keywords left to the parent parsers
ParentKeywords ==
    { <<"e","n","d","i","f">>, <<"e","n","d","f","o","r">>,
      <<"e","n","d","c","o","m","p","o","n","e","n","t">>,
      <<"e","n","d","b","l","o","c","k">>, <<"e","n","d","r","a","w">>,
      <<"e","l","s","e">>, <<"e","l","i","f">> }

\* PyxmParser._parse_attribute, _parse_event_binding, _parse_attr_binding,
\* _parse_ref_binding: the node and the position after the attribute
parse_attribute(toks, p, node) ==
    LET name == current(toks, p).value
    IN  IF current(toks, p + 1).type = "ATTR_EQUALS"
        THEN IF current(toks, p + 2).type = "ATTR_VALUE"
             THEN [node |-> [node EXCEPT !.attributes =
                                 PairsPut(@, name, Some(current(toks, p + 2).value))],
                   pos |-> p + 3]
             ELSE [node |-> [node EXCEPT !.attributes = PairsPut(@, name, <<>>)], pos |-> p + 2]
        ELSE [node |-> [node EXCEPT !.attributes = PairsPut(@, name, <<>>)], pos |-> p + 1]

parse_event_binding(toks, p, node) ==
    LET name == current(toks, p).value
    IN  IF current(toks, p + 1).type = "ATTR_EQUALS"
        THEN IF current(toks, p + 2).type = "ATTR_VALUE"
             THEN [node |-> [node EXCEPT !.events = PairsPut(@, name, current(toks, p + 2).value)],
                   pos |-> p + 3]
             ELSE [node |-> node, pos |-> p + 2]
        ELSE [node |-> node, pos |-> p + 1]

parse_attr_binding(toks, p, node) ==
    LET name == current(toks, p).value
    IN  IF current(toks, p + 1).type = "ATTR_EQUALS"
        THEN IF current(toks, p + 2).type = "ATTR_VALUE"
             THEN [node |-> [node EXCEPT !.bindings = PairsPut(@, name, current(toks, p + 2).value)],
                   pos |-> p + 3]
             ELSE [node |-> node, pos |-> p + 2]
        ELSE [node |-> node, pos |-> p + 1]

parse_ref_binding(toks, p, node) ==
    [node |-> [node EXCEPT !.refs = Append(@, current(toks, p).value)], pos |-> p + 1]

\* the attribute loop of PyxmParser._parse_element
RECURSIVE ElementAttributes(_, _, _)
ElementAttributes(toks, p, node) ==
    LET t == current(toks, p).type
        r == CASE t = "ATTR_NAME"  -> parse_attribute(toks, p, node)
               [] t = "EVENT_BIND" -> parse_event_binding(toks, p, node)
               [] t = "ATTR_BIND"  -> parse_attr_binding(toks, p, node)
               [] t = "REF_BIND"   -> parse_ref_binding(toks, p, node)
               [] OTHER            -> [node |-> node, pos |-> p]
    IN  IF t \in {"ATTR_NAME", "EVENT_BIND", "ATTR_BIND", "REF_BIND"}
        THEN ElementAttributes(toks, r.pos, r.node)
        ELSE r

\* PyxmParser._is_static_node
is_static_node(node) ==
    /\ node.bindings = <<>>
    /\ node.events = <<>>
    /\ \A i \in 1..Len(node.children) :
           /\ node.children[i].type \notin {"EXPRESSION", "IF", "FOR"}
           /\ ~(node.children[i].type = "ELEMENT" /\ ~node.children[i].is_static)

RECURSIVE parse_node(_, _)
RECURSIVE parse_statement(_, _)
RECURSIVE parse_if_block(_, _, _)
RECURSIVE IfLoop(_, _, _)
RECURSIVE parse_children_until(_, _, _, _)
RECURSIVE parse_element(_, _)
RECURSIVE ElementChildren(_, _, _)

\* PyxmParser._parse_children_until
parse_children_until(toks, p, node, end_tags) ==
    IF is_at_end(toks, p) \/ \E tag \in end_tags : is_end_tag(toks, p, tag)
    THEN Parsed(node, p, "")
    ELSE LET r == PyxmParser("parse_node", <<toks, p>>)
         IN  IF r.err # "" THEN Parsed(node, r.pos, r.err)
             ELSE IF r.node = <<>>
                  THEN IF r.pos = p THEN Parsed(node, p, "diverges")
                       ELSE parse_children_until(toks, r.pos, node, end_tags)
                  ELSE parse_children_until(toks, r.pos, add_child(node, r.node[1]), end_tags)

\* a block statement: its children up to the end tag, then the end tag
ParseBlock(toks, p, node, end_tag) ==
    LET r == PyxmParser("parse_children_until", <<toks, p, node, {end_tag}>>)
        e == PyxmParser("consume_end_tag", <<toks, r.pos, end_tag>>)
    IN  IF r.err # "" THEN Parsed(<<>>, r.pos, r.err)
        ELSE IF e.err # "" THEN Parsed(<<>>, e.pos, e.err)
        ELSE Parsed(Some(r.node), e.pos, "")

\* PyxmParser._parse_for_block
parse_for_block(toks, p, iterator) ==
    PyxmParser("ParseBlock", <<toks, p, [Node("FOR") EXCEPT !.iterator = Some(iterator)], <<"e","n","d","f","o","r">>>>)

\* PyxmParser._parse_component_block
parse_component_block(toks, p, name) ==
    PyxmParser("ParseBlock", <<toks, p, [Node("COMPONENT") EXCEPT !.tag = Some(name)],
               <<"e","n","d","c","o","m","p","o","n","e","n","t">>>>)

\* PyxmParser._parse_block_block
parse_block_block(toks, p, name) ==
    PyxmParser("ParseBlock", <<toks, p, [Node("BLOCK") EXCEPT !.tag = Some(name)],
               <<"e","n","d","b","l","o","c","k">>>>)

\* the loop of PyxmParser._parse_if_block
IfLoop(toks, p, node) ==
    IF is_at_end(toks, p) THEN Parsed(Some(node), p, "")
    ELSE IF is_end_tag(toks, p, <<"e","n","d","i","f">>)
    THEN LET e == PyxmParser("consume_end_tag", <<toks, p, <<"e","n","d","i","f">>>>)
         IN  IF e.err # "" THEN Parsed(<<>>, e.pos, e.err) ELSE Parsed(Some(node), e.pos, "")
    ELSE IF is_end_tag(toks, p, <<"e","l","s","e">>)
    THEN LET e1 == PyxmParser("consume_end_tag", <<toks, p, <<"e","l","s","e">>>>)
             r  == PyxmParser("parse_children_until", <<toks, e1.pos, Node("ELSE"), {<<"e","n","d","i","f">>}>>)
             e2 == PyxmParser("consume_end_tag", <<toks, r.pos, <<"e","n","d","i","f">>>>)
         IN  IF e1.err # "" THEN Parsed(<<>>, e1.pos, e1.err)
             ELSE IF r.err # "" THEN Parsed(<<>>, r.pos, r.err)
             ELSE IF e2.err # "" THEN Parsed(<<>>, e2.pos, e2.err)
             ELSE Parsed(Some(add_child(node, r.node)), e2.pos, "")
    ELSE IF is_elif(toks, p)
    THEN LET e == Expect3(toks, p, "STMT_OPEN", "STMT_CONTENT", "STMT_CLOSE")
             elif_condition == Strip(Slice(Strip(current(toks, p + 1).value), 5,
                                           Len(current(toks, p + 1).value)))
             r == PyxmParser("parse_if_block", <<toks, e.pos, elif_condition>>)
         IN  IF e.err # "" THEN Parsed(<<>>, e.pos, e.err)
             ELSE IF r.err # "" THEN Parsed(<<>>, r.pos, r.err)
             ELSE Parsed(Some(add_child(node, [r.node[1] EXCEPT !.type = "ELIF"])), r.pos, "")
    ELSE LET r == PyxmParser("parse_node", <<toks, p>>)
         IN  IF r.err # "" THEN Parsed(<<>>, r.pos, r.err)
             ELSE IF r.node = <<>>
                  THEN IF r.pos = p THEN Parsed(<<>>, p, "diverges")
                       ELSE IfLoop(toks, r.pos, node)
                  ELSE IfLoop(toks, r.pos, add_child(node, r.node[1]))

\* PyxmParser._parse_if_block
parse_if_block(toks, p, condition) ==
    PyxmParser("IfLoop", <<toks, p, [Node("IF") EXCEPT !.condition = Some(condition)]>>)

\* PyxmParser._parse_statement
parse_statement(toks, p) ==
    LET e == Expect3(toks, p, "STMT_OPEN", "STMT_CONTENT", "STMT_CLOSE")
        content_token == current(toks, p + 1)
        content == Strip(content_token.value)
    IN  IF e.err # "" THEN Parsed(<<>>, e.pos, e.err)
        ELSE IF StartsWith(content, <<"i","f"," ">>)
        THEN PyxmParser("parse_if_block", <<toks, e.pos, Strip(Slice(content, 3, Len(content)))>>)
        ELSE IF StartsWith(content, <<"f","o","r"," ">>)
        THEN PyxmParser("parse_for_block", <<toks, e.pos, Strip(Slice(content, 4, Len(content)))>>)
        ELSE IF StartsWith(content, <<"c","o","m","p","o","n","e","n","t"," ">>)
        THEN PyxmParser("parse_component_block", <<toks, e.pos, Strip(Slice(content, 10, Len(content)))>>)
        ELSE IF StartsWith(content, <<"b","l","o","c","k"," ">>)
        THEN PyxmParser("parse_block_block", <<toks, e.pos, Strip(Slice(content, 6, Len(content)))>>)
        ELSE IF StartsWith(content, <<"s","l","o","t">>)
        THEN parse_slot_block(toks, e.pos, content)
        ELSE IF StartsWith(content, <<"r","a","w">>)
        THEN PyxmParser("parse_raw_block", <<toks, e.pos>>)
        ELSE IF content \in ParentKeywords
        THEN Parsed(<<>>, e.pos - 3, "")
        ELSE Parsed(Some([Node("COMMENT") EXCEPT
                              !.content = Some(<<"U","n","k","n","o","w","n"," ","s","t","a","t",
                                                 "e","m","e","n","t",":"," ">> \o content),
                              !.line = content_token.line]),
                    e.pos, "")

\* the children loop of PyxmParser._parse_element
ElementChildren(toks, p, node) ==
    IF is_at_end(toks, p) THEN Parsed(Some(node), p, "")
    ELSE IF current(toks, p).type = "TAG_END_OPEN"
    THEN IF current(toks, p + 1).type # "TAG_NAME" THEN Parsed(<<>>, p + 1, "SyntaxError")
         ELSE IF current(toks, p + 2).type # "TAG_CLOSE" THEN Parsed(<<>>, p + 2, "SyntaxError")
         ELSE IF ToLower(current(toks, p + 1).value) # node.tag[1]
              THEN Parsed(<<>>, p + 3, "SyntaxError")
              ELSE Parsed(Some(node), p + 3, "")
    ELSE LET r == PyxmParser("parse_node", <<toks, p>>)
         IN  IF r.err # "" THEN Parsed(<<>>, r.pos, r.err)
             ELSE IF r.node = <<>>
                  THEN IF r.pos = p THEN Parsed(<<>>, p, "diverges")
                       ELSE ElementChildren(toks, r.pos, node)
                  ELSE ElementChildren(toks, r.pos, add_child(node, r.node[1]))

\* PyxmParser._parse_element
parse_element(toks, p) ==
    IF current(toks, p).type # "TAG_OPEN" THEN Parsed(<<>>, p, "SyntaxError")
    ELSE IF current(toks, p + 1).type # "TAG_NAME" THEN Parsed(<<>>, p + 1, "SyntaxError")
    ELSE LET tag_token == current(toks, p + 1)
             tag_name  == ToLower(tag_token.value)
             a == PyxmParser("ElementAttributes", <<toks, p + 2,
                      [Node("ELEMENT") EXCEPT !.tag = Some(tag_name), !.line = tag_token.line,
                                              !.column = tag_token.column]>>)
         IN  IF current(toks, a.pos).type = "TAG_SELF_CLOSE"
             THEN Parsed(Some([a.node EXCEPT !.is_self_closing = TRUE]), a.pos + 1, "")
             ELSE IF current(toks, a.pos).type # "TAG_CLOSE"
             THEN Parsed(<<>>, a.pos, "SyntaxError")
             ELSE IF tag_name \in VOID_ELEMENTS
             THEN Parsed(Some([a.node EXCEPT !.is_self_closing = TRUE]), a.pos + 1, "")
             ELSE LET c == PyxmParser("ElementChildren", <<toks, a.pos + 1, a.node>>)
                  IN  IF c.err # "" THEN c
                      ELSE Parsed(Some([c.node[1] EXCEPT !.is_static = is_static_node(c.node[1])]),
                                  c.pos, "")

\* PyxmParser._parse_node
parse_node(toks, p) ==
    LET t == current(toks, p).type
    IN  CASE t = "TEXT"          -> parse_text(toks, p)
          [] t = "EXPR_OPEN"     -> parse_expression(toks, p)
          [] t = "STMT_OPEN"     -> PyxmParser("parse_statement", <<toks, p>>)
          [] t = "COMMENT_OPEN"  -> parse_comment(toks, p)
          [] t = "PY_BLOCK_OPEN" -> parse_python_block(toks, p)
          [] t = "TAG_OPEN"      -> PyxmParser("parse_element", <<toks, p>>)
          [] t = "TAG_END_OPEN"  -> Parsed(<<>>, p, "")
          [] OTHER               -> Parsed(<<>>, p + 1, "")

\* the loop of PyxmParser.parse
RECURSIVE RootLoop(_, _, _, _)
RootLoop(toks, p, root, python_blocks) ==
    IF is_at_end(toks, p)
    THEN [result |-> "ok", root |-> root, python_blocks |-> python_blocks]
    ELSE LET r == PyxmParser("parse_node", <<toks, p>>)
         IN  IF r.err # ""
             THEN [result |-> r.err, root |-> root, python_blocks |-> python_blocks]
             ELSE IF r.node = <<>>
                  THEN IF r.pos = p
                       THEN [result |-> "diverges", root |-> root, python_blocks |-> python_blocks]
                       ELSE RootLoop(toks, r.pos, root, python_blocks)
                  ELSE IF r.node[1].type = "PYTHON"
                       THEN RootLoop(toks, r.pos, root,
                                Append(python_blocks,
                                       IF r.node[1].content = <<>> THEN <<>> ELSE r.node[1].content[1]))
                       ELSE RootLoop(toks, r.pos, add_child(root, r.node[1]), python_blocks)

\* PyxmParser.parse after `self.tokens = lexer.tokenize()`: the tree
parse_tokens(lexed) ==
    IF lexed.result # "ok"
    THEN [result |-> lexed.result, root |-> Node("ROOT"), python_blocks |-> <<>>]
    ELSE PyxmParser("RootLoop", <<lexed.tokens, 0, Node("ROOT"), <<>>>>)

\* PyxmParser.parse: the token stream, then the tree
parse(src) == PyxmParser("parse_tokens", <<PyxmLexer("tokenize", <<src>>)>>)

\* the methods of PyxmParser that are called from several places, called by name
PyxmParser(m, a) ==
    CASE m = "parse_children_until" -> parse_children_until(a[1], a[2], a[3], a[4])
      [] m = "ElementChildren" -> ElementChildren(a[1], a[2], a[3])
      [] m = "parse_if_block" -> parse_if_block(a[1], a[2], a[3])
      [] m = "ElementAttributes" -> ElementAttributes(a[1], a[2], a[3])
      [] m = "parse_node" -> parse_node(a[1], a[2])
      [] m = "RawLoop" -> RawLoop(a[1], a[2], a[3])
      [] m = "consume_end_tag" -> consume_end_tag(a[1], a[2], a[3])
      [] m = "parse_raw_block" -> parse_raw_block(a[1], a[2])
      [] m = "ParseBlock" -> ParseBlock(a[1], a[2], a[3], a[4])
      [] m = "IfLoop" -> IfLoop(a[1], a[2], a[3])
      [] m = "parse_statement" -> parse_statement(a[1], a[2])
      [] m = "parse_element" -> parse_element(a[1], a[2])
      [] m = "RootLoop" -> RootLoop(a[1], a[2], a[3], a[4])
      [] m = "parse_for_block" -> parse_for_block(a[1], a[2], a[3])
      [] m = "parse_component_block" -> parse_component_block(a[1], a[2], a[3])
      [] m = "parse_block_block" -> parse_block_block(a[1], a[2], a[3])
      [] m = "parse_tokens" -> parse_tokens(a[1])
      [] m = "parse" -> parse(a[1])

(***************************************************************************)
(* PyxmCompiler.  The generated render code is text: output_parts is the   *)
(* list of emitted lines, each a sequence of characters, and get_code      *)
(* joins them with newlines.  A compiler context is                        *)
(* [indent_level, output_parts, temp_var_counter, loop_depth].             *)
(***************************************************************************)
RECURSIVE PyxmCompiler(_, _)
\* "".join(ss)
RECURSIVE Flatten(_)
Flatten(ss) ==
    IF ss = <<>> THEN <<>>
    ELSE IF Len(ss) = 1 THEN ss[1]
    ELSE Flatten(SubSeq(ss, 1, Len(ss) \div 2)) \o Flatten(SubSeq(ss, Len(ss) \div 2 + 1, Len(ss)))

\* sep.join(ss)
Join(ss, sep) ==
    IF ss = <<>> THEN <<>>
    ELSE Flatten([i \in 1..(2 * Len(ss) - 1) |-> IF i % 2 = 1 THEN ss[(i + 1) \div 2] ELSE sep])

\* s.index(ch), for a character that occurs in s
Index(s, ch) == (CHOOSE j \in 1..Len(s) : s[j] = ch /\ \A k \in 1..(j - 1) : s[k] # ch) - 1

\* s.split(ch); the parts are bound by CHOOSE over a one-element set, which
\* evaluates them once
RECURSIVE Split(_, _)
Split(s, ch) ==
    IF \E i \in 1..Len(s) : s[i] = ch
    THEN CHOOSE r \in
             { <<first>> \o Split(rest, ch) :
                 first \in {SubSeq(s, 1, Index(s, ch))},
                 rest \in {SubSeq(s, Index(s, ch) + 2, Len(s))} } : TRUE
    ELSE <<s>>

DigitSeq == <<"0","1","2","3","4","5","6","7","8","9">>

\* str(n) for a natural number
RECURSIVE NatStr(_)
NatStr(n) == IF n < 10 THEN <<DigitSeq[n + 1]>> ELSE NatStr(n \div 10) \o <<DigitSeq[(n % 10) + 1]>>

\* html.escape(s, quote=True)
html_escape(s) ==
    Flatten([i \in 1..Len(s) |->
        CASE s[i] = "&"  -> <<"&","a","m","p",";">>
          [] s[i] = "<"  -> <<"&","l","t",";">>
          [] s[i] = ">"  -> <<"&","g","t",";">>
          [] s[i] = "\""  -> <<"&","q","u","o","t",";">>
          [] s[i] = "'"  -> <<"&","#","x","2","7",";">>
          [] OTHER       -> <<s[i]>>])

\* repr(s) of a str
repr(s) ==
    LET has(c) == \E i \in 1..Len(s) : s[i] = c
        quote  == IF has("'") /\ ~has("\"") THEN "\"" ELSE "'"
    IN  <<quote>> \o
        Flatten([i \in 1..Len(s) |->
            CASE s[i] = "\\"  -> <<"\\","\\">>
              [] s[i] = quote -> <<"\\", quote>>
              [] s[i] = "\n"  -> <<"\\","n">>
              [] s[i] = "\t"  -> <<"\\","t">>
              [] s[i] = "\r"  -> <<"\\","r">>
              [] s[i] = "\f"  -> <<"\\","x","0","c">>
              [] OTHER        -> <<s[i]>>])
        \o <<quote>>

\* CompilerContext.__init__
CompilerContext == [indent_level |-> 0, output_parts |-> <<>>, temp_var_counter |-> 0, loop_depth |-> 0]

\* CompilerContext.indent
indent(cx) == Flatten([i \in 1..cx.indent_level |-> <<" "," "," "," ">>])

\* CompilerContext.emit
emit(cx, code) == [cx EXCEPT !.output_parts = Append(@, indent(cx) \o code)]

\* CompilerContext.enter_scope, exit_scope
enter_scope(cx) == [cx EXCEPT !.indent_level = @ + 1]

exit_scope(cx) == [cx EXCEPT !.indent_level = @ - 1]

\* CompilerContext.get_code
get_code(cx) == CHOOSE code \in {Join(parts, <<"\n">>) : parts \in {cx.output_parts}} : TRUE

\* the truth value of an Optional[str]
Truthy(o) == o # <<>> /\ o[1] # <<>>

\* PyxmCompiler._emit_python_block
RECURSIVE EmitBlockLines(_, _)
EmitBlockLines(cx, lines) ==
    IF lines = <<>> THEN cx
    ELSE LET stripped == Strip(Head(lines))
         IN  IF stripped = <<>> \/ StartsWith(stripped, <<"i","m","p","o","r","t"," ">>) \/ StartsWith(stripped, <<"f","r","o","m"," ">>)
             THEN EmitBlockLines(cx, Tail(lines))
             ELSE EmitBlockLines(emit(cx, Head(lines)), Tail(lines))

emit_python_block(cx, block) == emit(EmitBlockLines(cx, Split(Strip(block), "\n")), <<>>)

\* PyxmCompiler._compile_text
compile_text(cx, node) ==
    IF Truthy(node.content) THEN emit(cx, <<"_","a","p","p","e","n","d","(">> \o repr(node.content[1]) \o <<")">>) ELSE cx

\* PyxmCompiler._compile_filters
RECURSIVE FilterChain(_, _)
FilterChain(result, filters) ==
    IF filters = <<>> THEN result
    ELSE LET filter_expr == Head(filters)
         IN  IF \E i \in 1..Len(filter_expr) : filter_expr[i] = "("
             THEN LET at == Index(filter_expr, "(")
                      filter_name == Slice(filter_expr, 0, at)
                      args == Slice(filter_expr, at, Len(filter_expr))
                  IN  FilterChain(<<"_","f","i","l","t","e","r","s","[","'">> \o filter_name \o <<"'","]","(">> \o result \o <<","," ">>
                                  \o Slice(args, 1, Len(args) - 1) \o <<")">>, Tail(filters))
             ELSE FilterChain(<<"_","f","i","l","t","e","r","s","[","'">> \o filter_expr \o <<"'","]","(">> \o result \o <<")">>,
                              Tail(filters))

compile_filters(expr) ==
    LET split == Split(expr, "|")
        parts == [i \in 1..Len(split) |-> Strip(split[i])]
    IN  FilterChain(parts[1], Tail(parts))

\* the expression text after filter compilation
FilteredExpr(content) ==
    LET expr == Strip(content)
    IN  IF \E i \in 1..Len(expr) : expr[i] = "|" THEN compile_filters(expr) ELSE expr

\* is_safe in PyxmCompiler._compile_expression
is_safe(expr) == EndsWith(expr, <<"|","s","a","f","e">>) \/ Contains(expr, <<"s","a","f","e","(">>)

\* PyxmCompiler._compile_expression
compile_expression(cx, node) ==
    IF ~Truthy(node.content) THEN cx
    ELSE LET expr == FilteredExpr(node.content[1])
         IN  IF is_safe(expr)
             THEN emit(cx, <<"_","a","p","p","e","n","d","(","s","t","r","(">> \o expr \o <<")",")">>)
             ELSE emit(cx, <<"_","a","p","p","e","n","d","(","_","e","s","c","a","p","e","(","s","t","r","(">> \o expr \o <<")",")",")">>)

\* PyxmCompiler._compile_raw
compile_raw(cx, node) ==
    IF Truthy(node.content) THEN emit(cx, <<"_","a","p","p","e","n","d","(">> \o repr(node.content[1]) \o <<")">>) ELSE cx

\* the text of an Optional[str] inside an f-string
Fmt(o) == IF o = <<>> THEN <<"N","o","n","e">> ELSE o[1]

RECURSIVE compile_node(_, _)
RECURSIVE CompileAll(_, _)
RECURSIVE compile_if(_, _)
RECURSIVE IfChildren(_, _)
RECURSIVE ElifChildren(_, _)

\* self._compile_node(child) for every child, in order
CompileAll(cx, children) ==
    IF children = <<>> THEN cx
    ELSE CHOOSE r \in { PyxmCompiler("CompileAll", <<c, rest>>) :
                          c \in {PyxmCompiler("compile_node", <<cx, Head(children)>>)},
                          rest \in {Tail(children)} } : TRUE

\* the children of an ELIF child: its own ELIF and ELSE children are skipped
ElifChildren(cx, children) ==
    IF children = <<>> THEN cx
    ELSE IF Head(children).type \in {"ELIF", "ELSE"} THEN ElifChildren(cx, Tail(children))
    ELSE ElifChildren(PyxmCompiler("compile_node", <<cx, Head(children)>>), Tail(children))

\* the loop over node.children in PyxmCompiler._compile_if
IfChildren(cx, children) ==
    IF children = <<>> THEN cx
    ELSE LET child == Head(children)
         IN  IF child.type = "ELIF"
             THEN IfChildren(PyxmCompiler("ElifChildren", <<enter_scope(emit(exit_scope(cx),
                                 <<"e","l","i","f"," ">> \o Fmt(child.condition) \o <<":">>)), child.children>>),
                             Tail(children))
             ELSE IF child.type = "ELSE"
             THEN IfChildren(PyxmCompiler("CompileAll", <<enter_scope(emit(exit_scope(cx), <<"e","l","s","e",":">>)), child.children>>),
                             Tail(children))
             ELSE IfChildren(PyxmCompiler("compile_node", <<cx, child>>), Tail(children))

\* PyxmCompiler._compile_if
compile_if(cx, node) ==
    exit_scope(PyxmCompiler("IfChildren", <<enter_scope(emit(cx, <<"i","f"," ">> \o Fmt(node.condition) \o <<":">>)),
                          node.children>>))

\* PyxmCompiler._compile_for
compile_for(cx, node) ==
    LET c1 == [cx EXCEPT !.loop_depth = @ + 1]
        loop_var == <<"_","l","o","o","p">> \o NatStr(c1.loop_depth)
        c2 == enter_scope(emit(c1, <<"f","o","r"," ">> \o Fmt(node.iterator) \o <<":">>))
        c3 == emit(c2, loop_var \o <<" ","="," ","{","'","i","n","d","e","x","'",":"," ","0",","," ","'","f","i","r","s","t","'",":"," ","T","r","u","e",","," ","'","l","a","s","t","'",":"," ","F","a","l","s","e","}">>)
        c4 == PyxmCompiler("CompileAll", <<c3, node.children>>)
        c5 == emit(c4, loop_var \o <<"[","'","i","n","d","e","x","'","]"," ","+","="," ","1">>)
        c6 == emit(c5, loop_var \o <<"[","'","f","i","r","s","t","'","]"," ","="," ","F","a","l","s","e">>)
    IN  [exit_scope(c6) EXCEPT !.loop_depth = @ - 1]

\* PyxmCompiler._compile_block
compile_block(cx, node) ==
    LET c1 == enter_scope(emit(cx, <<"i","f"," ","'">> \o Fmt(node.tag) \o <<"'"," ","i","n"," ","_","c","t","x",".","g","e","t","(","'","_","b","l","o","c","k","s","'",","," ","{","}",")",":">>))
        c2 == exit_scope(emit(c1, <<"_","a","p","p","e","n","d","(","_","c","t","x","[","'","_","b","l","o","c","k","s","'","]","[","'">> \o Fmt(node.tag) \o <<"'","]",")">>))
        c3 == enter_scope(emit(c2, <<"e","l","s","e",":">>))
    IN  exit_scope(PyxmCompiler("CompileAll", <<c3, node.children>>))

\* PyxmCompiler._compile_slot
compile_slot(cx, node) ==
    LET slot_name == IF Truthy(node.tag) THEN node.tag[1] ELSE <<"d","e","f","a","u","l","t">>
        c1 == enter_scope(emit(cx, <<"i","f"," ","'">> \o slot_name \o <<"'"," ","i","n"," ","_","c","t","x",".","g","e","t","(","'","_","s","l","o","t","s","'",","," ","{","}",")",":">>))
        c2 == exit_scope(emit(c1, <<"_","a","p","p","e","n","d","(","_","c","t","x","[","'","_","s","l","o","t","s","'","]","[","'">> \o slot_name \o <<"'","]",")">>))
    IN  IF node.children # <<>>
        THEN exit_scope(PyxmCompiler("CompileAll", <<enter_scope(emit(c2, <<"e","l","s","e",":">>)), node.children>>))
        ELSE c2

\* the loops over node.attributes and node.bindings in _compile_component
RECURSIVE PropsAttributes(_, _, _)
PropsAttributes(cx, props_var, attrs) ==
    IF attrs = <<>> THEN cx
    ELSE PropsAttributes(
             emit(cx, props_var \o <<"[","'">> \o Head(attrs)[1] \o <<"'","]"," ","="," ">>
                      \o (IF Head(attrs)[2] = <<>> THEN <<"T","r","u","e">> ELSE repr(Head(attrs)[2][1]))),
             props_var, Tail(attrs))

RECURSIVE PropsBindings(_, _, _)
PropsBindings(cx, props_var, bindings) ==
    IF bindings = <<>> THEN cx
    ELSE PropsBindings(
             emit(cx, props_var \o <<"[","'">> \o Head(bindings)[1] \o <<"'","]"," ","="," ">> \o Head(bindings)[2]),
             props_var, Tail(bindings))

\* PyxmCompiler._compile_component
compile_component(cx, node) ==
    LET component_name == Fmt(node.tag)
        c1 == enter_scope(emit(cx, <<"i","f"," ","'">> \o component_name
                                   \o <<"'"," ","i","n"," ","_","c","t","x",".","g","e","t","(","'","_","c","o","m","p","o","n","e","n","t","s","'",","," ","{","}",")",":">>))
        c2 == [c1 EXCEPT !.temp_var_counter = @ + 1]
        props_var == <<"_","p","r","o","p","s">> \o NatStr(c2.temp_var_counter)
        c3 == emit(c2, props_var \o <<" ","="," ","{","}">>)
        c4 == PropsBindings(PropsAttributes(c3, props_var, node.attributes), props_var,
                            node.bindings)
        c5 == emit(c4, <<"_","c","o","m","p","o","n","e","n","t"," ","="," ","_","c","t","x","[","'","_","c","o","m","p","o","n","e","n","t","s","'","]","[","'">> \o component_name \o <<"'","]">>)
        c6 == emit(c5, <<"_","c","o","m","p","o","n","e","n","t","_","r","e","s","u","l","t"," ","="," ","a","w","a","i","t"," ","_","c","o","m","p","o","n","e","n","t",".","r","e","n","d","e","r","(">> \o props_var \o <<")">>)
        c7 == exit_scope(emit(c6, <<"_","a","p","p","e","n","d","(","_","c","o","m","p","o","n","e","n","t","_","r","e","s","u","l","t",")">>))
    IN  exit_scope(PyxmCompiler("CompileAll", <<enter_scope(emit(c7, <<"e","l","s","e",":">>)), node.children>>))

\* the loops over attributes, bindings, events and refs in _compile_element
RECURSIVE ElementAttrs(_, _)
ElementAttrs(cx, attrs) ==
    IF attrs = <<>> THEN cx
    ELSE ElementAttrs(
             IF Head(attrs)[2] = <<>>
             THEN emit(cx, <<"_","a","p","p","e","n","d","(","'"," ">> \o Head(attrs)[1] \o <<"'",")">>)
             ELSE emit(cx, <<"_","a","p","p","e","n","d","(","'"," ">> \o Head(attrs)[1] \o <<"=","\"">> \o html_escape(Head(attrs)[2][1])
                           \o <<"\"","'",")">>),
             Tail(attrs))

RECURSIVE ElementBindings(_, _)
ElementBindings(cx, bindings) ==
    IF bindings = <<>> THEN cx
    ELSE LET c1  == [cx EXCEPT !.temp_var_counter = @ + 1]
             var == <<"_","a","t","t","r">> \o NatStr(c1.temp_var_counter)
             c2  == emit(c1, var \o <<" ","="," ">> \o Head(bindings)[2])
             c3  == enter_scope(emit(c2, <<"i","f"," ">> \o var \o <<" ","i","s"," ","n","o","t"," ","N","o","n","e",":">>))
             c4  == emit(c3, <<"_","a","p","p","e","n","d","(","'"," ">> \o Head(bindings)[1] \o <<"=","\"","'"," ","+"," ","_","e","s","c","a","p","e","(","s","t","r","(">>
                             \o var \o <<")",")"," ","+"," ","'","\"","'",")">>)
         IN  ElementBindings(exit_scope(c4), Tail(bindings))

RECURSIVE ElementEvents(_, _)
ElementEvents(cx, events) ==
    IF events = <<>> THEN cx
    ELSE ElementEvents(emit(cx, <<"_","a","p","p","e","n","d","(","'"," ","d","a","t","a","-","n","e","x","a","-","o","n","-">> \o Head(events)[1] \o <<"=","\"">>
                                \o Head(events)[2] \o <<"\"","'",")">>),
                       Tail(events))

RECURSIVE ElementRefs(_, _)
ElementRefs(cx, refs) ==
    IF refs = <<>> THEN cx
    ELSE ElementRefs(emit(cx, <<"_","a","p","p","e","n","d","(","'"," ","d","a","t","a","-","n","e","x","a","-","r","e","f","=","\"">> \o Head(refs) \o <<"\"","'",")">>), Tail(refs))

\* PyxmCompiler._compile_element
compile_element(cx, node) ==
    LET tag == Fmt(node.tag)
        c1 == emit(cx, <<"_","a","p","p","e","n","d","(","'","<">> \o tag \o <<"'",")">>)
        c2 == ElementRefs(ElementEvents(ElementBindings(ElementAttrs(c1, node.attributes),
                  node.bindings), node.events), node.refs)
    IN  IF node.is_self_closing \/ tag \in VOID_ELEMENTS
        THEN emit(c2, <<"_","a","p","p","e","n","d","(","'"," ","/",">","'",")">>)
        ELSE emit(PyxmCompiler("CompileAll", <<emit(c2, <<"_","a","p","p","e","n","d","(","'",">","'",")">>), node.children>>),
                  <<"_","a","p","p","e","n","d","(","'","<","/">> \o tag \o <<">","'",")">>)

\* PyxmCompiler._compile_node
compile_node(cx, node) ==
    CASE node.type = "ROOT"       -> PyxmCompiler("CompileAll", <<cx, node.children>>)
      [] node.type = "TEXT"       -> compile_text(cx, node)
      [] node.type = "EXPRESSION" -> compile_expression(cx, node)
      [] node.type = "ELEMENT"    -> PyxmCompiler("compile_element", <<cx, node>>)
      [] node.type = "IF"         -> PyxmCompiler("compile_if", <<cx, node>>)
      [] node.type = "FOR"        -> PyxmCompiler("compile_for", <<cx, node>>)
      [] node.type = "COMPONENT"  -> PyxmCompiler("compile_component", <<cx, node>>)
      [] node.type = "SLOT"       -> PyxmCompiler("compile_slot", <<cx, node>>)
      [] node.type = "BLOCK"      -> PyxmCompiler("compile_block", <<cx, node>>)
      [] node.type = "RAW"        -> compile_raw(cx, node)
      [] OTHER                    -> cx

\* the render code that PyxmCompiler.compile generates for a tree
RECURSIVE EmitBlocks(_, _)
EmitBlocks(cx, blocks) ==
    IF blocks = <<>> THEN cx ELSE EmitBlocks(emit_python_block(cx, Head(blocks)), Tail(blocks))

\* PyxmCompiler.compile, lines 185-210: the context when the code has been emitted
compile_context(ast) ==
    LET c1 == enter_scope(emit(CompilerContext, <<"a","s","y","n","c"," ","d","e","f"," ","_","r","e","n","d","e","r","(","_","c","t","x",")",":">>))
        c2 == emit(emit(emit(emit(c1, <<"_","o","u","t","p","u","t"," ","="," ","[","]">>), <<"_","a","p","p","e","n","d"," ","="," ","_","o","u","t","p","u","t",".","a","p","p","e","n","d">>),
                        <<"_","e","s","c","a","p","e"," ","="," ","_","_","b","u","i","l","t","i","n","s","_","e","s","c","a","p","e","_","_">>), <<>>)
        c3 == PyxmCompiler("compile_node", <<EmitBlocks(c2, ast.python_blocks), ast.root>>)
        c4 == emit(emit(c3, <<>>), <<"r","e","t","u","r","n"," ","'","'",".","j","o","i","n","(","_","o","u","t","p","u","t",")">>)
    IN  exit_scope(c4)

\* PyxmCompiler.compile, line 213: render_code = self.context.get_code()
render_code(ast) == get_code(compile_context(ast))

\* the methods of PyxmCompiler that are called from several places, called by name
PyxmCompiler(m, a) ==
    CASE m = "CompileAll" -> CompileAll(a[1], a[2])
      [] m = "IfChildren" -> IfChildren(a[1], a[2])
      [] m = "compile_node" -> compile_node(a[1], a[2])
      [] m = "ElifChildren" -> ElifChildren(a[1], a[2])
      [] m = "compile_if" -> compile_if(a[1], a[2])
      [] m = "compile_for" -> compile_for(a[1], a[2])
      [] m = "compile_block" -> compile_block(a[1], a[2])
      [] m = "compile_slot" -> compile_slot(a[1], a[2])
      [] m = "compile_component" -> compile_component(a[1], a[2])
      [] m = "compile_element" -> compile_element(a[1], a[2])
      [] m = "render_code" -> render_code(a[1])
      [] m = "compile_context" -> compile_context(a[1])

(***************************************************************************)
(* exec(code, namespace) in PyxmCompiler._compile_render_function, and the *)
(* call of the function it defines.  The generated code is Python source   *)
(* text; this is the part of Python that the generated code is written in: *)
(* names, string literals, numbers, list and dictionary displays, calls,   *)
(* subscripts, attributes, `in`, await, assignments to a name and to a     *)
(* subscript, if / elif / else, for, and the fixed lines of the function's *)
(* frame.  A result whose err is "unsupported" says that the text leaves   *)
(* that part; what Python does with it is then not determined here.        *)
(***************************************************************************)
RECURSIVE Python(_, _)
PyKeywords ==
    { <<"F","a","l","s","e">>, <<"N","o","n","e">>, <<"T","r","u","e">>, <<"a","n","d">>, <<"a","s">>, <<"a","s","s","e","r","t">>, <<"a","s","y","n","c">>, <<"a","w","a","i","t">>, <<"b","r","e","a","k">>,
      <<"c","l","a","s","s">>, <<"c","o","n","t","i","n","u","e">>, <<"d","e","f">>, <<"d","e","l">>, <<"e","l","i","f">>, <<"e","l","s","e">>, <<"e","x","c","e","p","t">>, <<"f","i","n","a","l","l","y">>, <<"f","o","r">>,
      <<"f","r","o","m">>, <<"g","l","o","b","a","l">>, <<"i","f">>, <<"i","m","p","o","r","t">>, <<"i","n">>, <<"i","s">>, <<"l","a","m","b","d","a">>, <<"n","o","n","l","o","c","a","l">>, <<"n","o","t">>, <<"o","r">>,
      <<"p","a","s","s">>, <<"r","a","i","s","e">>, <<"r","e","t","u","r","n">>, <<"t","r","y">>, <<"w","h","i","l","e">>, <<"w","i","t","h">>, <<"y","i","e","l","d">> }

PyOperatorChars ==
    {"(", ")", "[", "]", "{", "}", ",", ".", ":", "=", "+", "-", "*", "/", "%", "<", ">",
     "!", "&", "|", "^", "~", "@", ";"}

PyToken(k, v) == [k |-> k, v |-> v]

\* a string literal opened at index p (0-based, the quote) of s: the value and
\* the index after the closing quote
PyStringBody(s, p, quote, acc) ==
    LET \* the characters up to the next quote, backslash or unsupported
        \* character are taken as they are
        e == FirstOf({i \in p..Len(s) : i = Len(s) \/ s[i + 1] \in {quote, "\r", "\f", "\\"}})
        run == acc \o Slice(s, p, e)
        c == s[e + 1]
        d == s[e + 2]
    IN  IF p >= Len(s) THEN [err |-> "SyntaxError", value |-> acc, pos |-> p]
        ELSE IF e >= Len(s) THEN [err |-> "SyntaxError", value |-> run, pos |-> e]
        ELSE IF c = quote THEN [err |-> "", value |-> run, pos |-> e + 1]
        ELSE IF c \in {"\r", "\f"} THEN [err |-> "unsupported", value |-> run, pos |-> e]
        ELSE IF e + 1 >= Len(s) THEN [err |-> "unsupported", value |-> run, pos |-> e]
        ELSE CASE d = "n"  -> Python("PyStringBody", <<s, e + 2, quote, Append(run, "\n")>>)
               [] d = "t"  -> Python("PyStringBody", <<s, e + 2, quote, Append(run, "\t")>>)
               [] d = "r"  -> Python("PyStringBody", <<s, e + 2, quote, Append(run, "\r")>>)
               [] d \in {"\\", "'", "\""} -> Python("PyStringBody", <<s, e + 2, quote, Append(run, d)>>)
               [] d = "x" /\ MatchAt(s, e + 2, <<"0","c">>)
                           -> Python("PyStringBody", <<s, e + 4, quote, Append(run, "\f")>>)
               [] OTHER    -> [err |-> "unsupported", value |-> run, pos |-> e]

\* the token at index p of a line, where a token starts: [err, tok, pos]
PyTokenAt(s, p) ==
    LET c == s[p + 1]
        e == SpanEnd(s, p, Alpha \cup Digit \cup {"_"})
        d == SpanEnd(s, p, Digit)
        b == Python("PyStringBody", <<s, p + 1, c, <<>>>>)
        Bad(err) == [err |-> err, tok |-> <<>>, pos |-> p]
    IN  IF c \in Alpha \cup {"_"}
        THEN IF At(s, e) \in {"'", "\""} /\ e - p <= 2
                /\ \A i \in (p + 1)..e : s[i] \in {"r","R","b","B","f","F","u","U"}
             THEN Bad("unsupported")
             ELSE [err |-> "", tok |-> PyToken("name", Slice(s, p, e)), pos |-> e]
        ELSE IF c \in Digit
        THEN IF At(s, d) \in Alpha \cup {"_", "."} \/ (c = "0" /\ d - p > 1)
             THEN Bad("unsupported")
             ELSE [err |-> "", tok |-> PyToken("num", Slice(s, p, d)), pos |-> d]
        ELSE IF c \in {"'", "\""}
        THEN IF MatchAt(s, p, <<c, c, c>>) THEN Bad("unsupported")
             ELSE IF b.err # "" THEN Bad(b.err)
             ELSE [err |-> "", tok |-> PyToken("str", b.value), pos |-> b.pos]
        ELSE IF c \in PyOperatorChars
        THEN [err |-> "", tok |-> PyToken("op", <<c>>), pos |-> p + 1]
        ELSE IF c \in {"$", "?"} THEN Bad("SyntaxError")
        ELSE Bad("unsupported")

\* the indices that the steps J lead to from those of O in fewer than 2n
\* steps: each round doubles the steps that J makes
RECURSIVE Reach(_, _, _)
Reach(J, O, n) ==
    IF n <= 1 THEN O \cup {J[x] : x \in O}
    ELSE CHOOSE r \in
             { Reach(J2, O2, n2) :
                 J2 \in {[x \in DOMAIN J |-> J[J[x]]]},
                 O2 \in {O \cup {J[x] : x \in O}},
                 n2 \in {(n + 1) \div 2} } : TRUE

\* the members of a set of numbers in ascending order
Ascending(S) == [i \in 1..Cardinality(S) |-> CHOOSE x \in S : Cardinality({y \in S : y < x}) = i - 1]

\* the tokens of one physical line, given the token T[q] that starts at every
\* index q (its pos is the index Len(s) + 1 where the line ends there, with
\* its end, a comment or an error) and the indices O from which the
\* tokenizer looks for a token, in ascending order
PyTokensOf(s, acc, T, O) ==
    [err |-> T[SpanEnd(s, O[Len(O)], {" "})].err,
     toks |-> acc \o [i \in 1..(Len(O) - 1) |-> T[SpanEnd(s, O[i], {" "})].tok]]

\* the token that starts at every index of the line
PyTokenStarts(s) ==
    [q \in 0..Len(s) |->
        IF q >= Len(s) \/ s[q + 1] = "#" THEN [err |-> "", tok |-> <<>>, pos |-> Len(s) + 1]
        ELSE IF Python("PyTokenAt", <<s, q>>).err # ""
        THEN [Python("PyTokenAt", <<s, q>>) EXCEPT !.pos = Len(s) + 1]
        ELSE Python("PyTokenAt", <<s, q>>)]

\* the tokens of one physical line from index p on: [err, toks].  The
\* tokenizer skips the blanks, reads the token that starts there and goes on
\* from its end.
PyTokens(s, p, acc) ==
    CHOOSE r \in
        { PyTokensOf(s, acc, T,
                     Ascending(Reach([x \in 0..(Len(s) + 1) |->
                                         IF x > Len(s) THEN x ELSE T[SpanEnd(s, x, {" "})].pos],
                                     {p}, Len(s) + 1) \ {Len(s) + 1})) :
            T \in {PyTokenStarts(s)} } : TRUE

IsOp(toks, p, c) == p < Len(toks) /\ toks[p + 1].k = "op" /\ toks[p + 1].v = <<c>>

\* the brackets of a line: "" when they balance, "SyntaxError" for a closing
\* bracket that closes nothing or the wrong bracket, "unsupported" for a
\* bracket left open, which continues the statement on the next line
RECURSIVE PyBrackets(_, _, _)
PyBrackets(toks, p, stack) ==
    IF p >= Len(toks) THEN (IF stack = <<>> THEN "" ELSE "unsupported")
    ELSE LET t == toks[p + 1]
         IN  IF t.k # "op" THEN PyBrackets(toks, p + 1, stack)
             ELSE IF t.v[1] \in {"(", "[", "{"} THEN PyBrackets(toks, p + 1, <<t.v[1]>> \o stack)
             ELSE IF t.v[1] \in {")", "]", "}"}
             THEN IF stack = <<>> THEN "SyntaxError"
                  ELSE IF <<Head(stack), t.v[1]>> \in {<<"(", ")">>, <<"[", "]">>, <<"{", "}">>}
                  THEN PyBrackets(toks, p + 1, Tail(stack))
                  ELSE "SyntaxError"
             ELSE PyBrackets(toks, p + 1, stack)

\* an expression: [k, v, f, args], k one of "name", "str", "num", "const",
\* "call" (f applied to args), "sub" (f subscripted by args[1]), "attr" (the
\* attribute v of f), "list" (a display of args), "dict" (a display of the
\* keys and values that alternate in args), "in" (f in args[1]), "is" and
\* "isnot" (f is args[1], f is not args[1]), "add" (f + args[1]) and "await"
\* (await f)
PyAst(k, v, f, args) == [k |-> k, v |-> v, f |-> f, args |-> args]

PyParsed(ast, p, err) == [ast |-> ast, pos |-> p, err |-> err]

IsAtom(toks, p) == p < Len(toks) /\ toks[p + 1].k \in {"name", "str", "num"}

RECURSIVE PyExpr(_, _)
RECURSIVE PyAtom(_, _)
RECURSIVE PyTrailers(_, _, _)
RECURSIVE PySumRest(_, _, _)
RECURSIVE PyArgs(_, _, _)
RECURSIVE PyItems(_, _, _)
RECURSIVE PyPairs(_, _, _)

\* the items of a list display, after the opening bracket
PyItems(toks, p, acc) ==
    IF IsOp(toks, p, "]") THEN [args |-> acc, pos |-> p + 1, err |-> ""]
    ELSE LET r == Python("PyExpr", <<toks, p>>)
         IN  IF r.err # "" THEN [args |-> acc, pos |-> r.pos, err |-> r.err]
             ELSE IF IsOp(toks, r.pos, "]")
             THEN [args |-> Append(acc, r.ast), pos |-> r.pos + 1, err |-> ""]
             ELSE IF IsOp(toks, r.pos, ",") /\ ~IsOp(toks, r.pos + 1, ",")
             THEN PyItems(toks, r.pos + 1, Append(acc, r.ast))
             ELSE [args |-> acc, pos |-> r.pos, err |-> "unsupported"]

\* the key: value pairs of a dictionary display, after the opening brace
PyPairs(toks, p, acc) ==
    IF IsOp(toks, p, "}") THEN [args |-> acc, pos |-> p + 1, err |-> ""]
    ELSE LET k == Python("PyExpr", <<toks, p>>)
             v == Python("PyExpr", <<toks, k.pos + 1>>)
         IN  IF k.err # "" THEN [args |-> acc, pos |-> k.pos, err |-> k.err]
             ELSE IF ~IsOp(toks, k.pos, ":") THEN [args |-> acc, pos |-> k.pos, err |-> "unsupported"]
             ELSE IF v.err # "" THEN [args |-> acc, pos |-> v.pos, err |-> v.err]
             ELSE IF IsOp(toks, v.pos, "}")
             THEN [args |-> acc \o <<k.ast, v.ast>>, pos |-> v.pos + 1, err |-> ""]
             ELSE IF IsOp(toks, v.pos, ",") /\ ~IsOp(toks, v.pos + 1, ",")
             THEN PyPairs(toks, v.pos + 1, acc \o <<k.ast, v.ast>>)
             ELSE [args |-> acc, pos |-> v.pos, err |-> "unsupported"]

\* the display that the bracket or brace at token p opens
PyDisplay(toks, p) ==
    LET list == toks[p + 1].v[1] = "["
        a == IF list THEN Python("PyItems", <<toks, p + 1, <<>>>>)
             ELSE Python("PyPairs", <<toks, p + 1, <<>>>>)
    IN  IF a.err # "" THEN PyParsed(<<>>, a.pos, a.err)
        ELSE PyParsed(PyAst(IF list THEN "list" ELSE "dict", <<>>, <<>>, a.args), a.pos, "")

\* await followed by a primary, for the token p after the keyword
PyAwait(toks, p) ==
    LET a == Python("PyAtom", <<toks, p>>)
        r == Python("PyTrailers", <<toks, a.pos, a.ast>>)
    IN  IF p < Len(toks) /\ toks[p + 1].k = "name" /\ toks[p + 1].v \in PyKeywords
        THEN PyParsed(<<>>, p, "unsupported")
        ELSE IF a.err # "" THEN a
        ELSE IF r.err # "" THEN r
        ELSE PyParsed(PyAst("await", <<>>, r.ast, <<>>), r.pos, "")

PyAtom(toks, p) ==
    IF p >= Len(toks) THEN PyParsed(<<>>, p, "SyntaxError")
    ELSE LET t == toks[p + 1]
         IN  CASE t.k = "name" ->
                      IF t.v \in {<<"T","r","u","e">>, <<"F","a","l","s","e">>, <<"N","o","n","e">>}
                      THEN PyParsed(PyAst("const", t.v, <<>>, <<>>), p + 1, "")
                      ELSE IF t.v = <<"a","w","a","i","t">> THEN PyAwait(toks, p + 1)
                      ELSE IF t.v \in PyKeywords THEN PyParsed(<<>>, p, "unsupported")
                      ELSE PyParsed(PyAst("name", t.v, <<>>, <<>>), p + 1, "")
               [] t.k = "str" ->
                      IF p + 1 < Len(toks) /\ toks[p + 2].k = "str"
                      THEN PyParsed(<<>>, p, "unsupported")
                      ELSE PyParsed(PyAst("str", t.v, <<>>, <<>>), p + 1, "")
               [] t.k = "num" -> PyParsed(PyAst("num", t.v, <<>>, <<>>), p + 1, "")
               [] OTHER ->
                      IF t.v[1] = "("
                      THEN LET r == Python("PyExpr", <<toks, p + 1>>)
                           IN  IF IsOp(toks, p + 1, ")") THEN PyParsed(<<>>, p, "unsupported")
                               ELSE IF r.err # "" THEN r
                               ELSE IF IsOp(toks, r.pos, ")") THEN PyParsed(r.ast, r.pos + 1, "")
                               ELSE PyParsed(<<>>, r.pos, "unsupported")
                      ELSE IF t.v[1] \in {"[", "{"} THEN PyDisplay(toks, p)
                      ELSE IF t.v[1] \in {")", "]", "}", ",", "=", ";", "!", "%", "/", "<", ">", "&",
                                          "|", "^"}
                      THEN PyParsed(<<>>, p, "SyntaxError")
                      ELSE PyParsed(<<>>, p, "unsupported")

\* the arguments of a call, after the opening parenthesis
PyArgs(toks, p, acc) ==
    IF IsOp(toks, p, ")") THEN [args |-> acc, pos |-> p + 1, err |-> ""]
    ELSE LET r == Python("PyExpr", <<toks, p>>)
         IN  IF r.err # "" THEN [args |-> acc, pos |-> r.pos, err |-> r.err]
             ELSE IF IsOp(toks, r.pos, ")")
             THEN [args |-> Append(acc, r.ast), pos |-> r.pos + 1, err |-> ""]
             ELSE IF IsOp(toks, r.pos, ",") THEN PyArgs(toks, r.pos + 1, Append(acc, r.ast))
             ELSE [args |-> acc, pos |-> r.pos, err |-> "unsupported"]

PyTrailers(toks, p, ast) ==
    IF IsOp(toks, p, "(")
    THEN LET a == Python("PyArgs", <<toks, p + 1, <<>>>>)
         IN  IF a.err # "" THEN PyParsed(<<>>, a.pos, a.err)
             ELSE PyTrailers(toks, a.pos, PyAst("call", <<>>, ast, a.args))
    ELSE IF IsOp(toks, p, "[")
    THEN LET r == Python("PyExpr", <<toks, p + 1>>)
         IN  IF r.err # "" THEN r
             ELSE IF IsOp(toks, r.pos, "]")
             THEN PyTrailers(toks, r.pos + 1, PyAst("sub", <<>>, ast, <<r.ast>>))
             ELSE PyParsed(<<>>, r.pos, "unsupported")
    ELSE IF IsOp(toks, p, ".")
    THEN IF p + 1 < Len(toks) /\ toks[p + 2].k = "name" /\ toks[p + 2].v \notin PyKeywords
         THEN PyTrailers(toks, p + 2, PyAst("attr", toks[p + 2].v, ast, <<>>))
         ELSE PyParsed(<<>>, p, "unsupported")
    ELSE PyParsed(ast, p, "")

\* the operands that `+` adds to left, from token p on
PySumRest(toks, p, left) ==
    IF ~IsOp(toks, p, "+") THEN PyParsed(left, p, "")
    ELSE IF IsOp(toks, p + 1, "=") THEN PyParsed(<<>>, p, "unsupported")
    ELSE LET a == Python("PyAtom", <<toks, p + 1>>)
             r == Python("PyTrailers", <<toks, a.pos, a.ast>>)
         IN  IF a.err # "" THEN a
             ELSE IF a.ast.k = "await" THEN PyParsed(<<>>, p, "unsupported")
             ELSE IF r.err # "" THEN r
             ELSE Python("PySumRest", <<toks, r.pos, PyAst("add", <<>>, left, <<r.ast>>)>>)

\* an operand of `in`, `is` and `is not`: a sum, given the atom a that opens it
PySum(toks, a) ==
    LET r == Python("PyTrailers", <<toks, a.pos, a.ast>>)
    IN  IF r.err # "" THEN r ELSE PySumRest(toks, r.pos, r.ast)

\* what may follow an expression
PyFollows(toks, r) ==
    IF r.err # "" THEN r
    ELSE IF IsAtom(toks, r.pos)
    THEN IF toks[r.pos + 1].k = "name" /\ toks[r.pos + 1].v \in PyKeywords
         THEN PyParsed(<<>>, r.pos, "unsupported")
         ELSE PyParsed(<<>>, r.pos, "SyntaxError")
    ELSE IF r.pos < Len(toks) /\ toks[r.pos + 1].v[1] \notin {")", "]", "}", ",", ":", "="}
    THEN PyParsed(<<>>, r.pos, "unsupported")
    ELSE r

\* the right operand of `in`, for the token p after the keyword
PyIn(toks, p, left) ==
    LET a == Python("PyAtom", <<toks, p>>)
        r == PySum(toks, a)
    IN  IF a.err # "" THEN a
        ELSE IF a.ast.k = "await" THEN PyParsed(<<>>, p, "unsupported")
        ELSE IF r.err # "" THEN r
        ELSE PyFollows(toks, PyParsed(PyAst("in", <<>>, left, <<r.ast>>), r.pos, ""))

\* the right operand of `is` and `is not`, for the token p after `is`
PyIs(toks, p, left) ==
    LET neg == p < Len(toks) /\ toks[p + 1].k = "name" /\ toks[p + 1].v = <<"n","o","t">>
        q == IF neg THEN p + 1 ELSE p
        a == Python("PyAtom", <<toks, q>>)
        r == PySum(toks, a)
    IN  IF a.err # "" THEN a
        ELSE IF a.ast.k = "await" THEN PyParsed(<<>>, q, "unsupported")
        ELSE IF r.err # "" THEN r
        ELSE PyFollows(toks, PyParsed(PyAst(IF neg THEN "isnot" ELSE "is", <<>>, left, <<r.ast>>), r.pos, ""))

\* an expression starting at token p; what follows it is the caller's to judge
PyExpr(toks, p) ==
    LET a == Python("PyAtom", <<toks, p>>)
        r == PySum(toks, a)
    IN  IF a.err # "" THEN a
        ELSE IF a.ast.k = "await" THEN PyFollows(toks, a)
        ELSE IF r.err # "" THEN r
        ELSE IF r.pos < Len(toks) /\ toks[r.pos + 1].k = "name" /\ toks[r.pos + 1].v = <<"i","n">>
        THEN PyIn(toks, r.pos + 1, r.ast)
        ELSE IF r.pos < Len(toks) /\ toks[r.pos + 1].k = "name" /\ toks[r.pos + 1].v = <<"i","s">>
        THEN PyIs(toks, r.pos + 1, r.ast)
        ELSE IF IsAtom(toks, r.pos)
        THEN IF toks[r.pos + 1].k = "name" /\ toks[r.pos + 1].v \in PyKeywords
             THEN PyParsed(<<>>, r.pos, "unsupported")
             ELSE PyParsed(<<>>, r.pos, "SyntaxError")
        ELSE IF r.pos < Len(toks) /\ toks[r.pos + 1].v[1] \notin {")", "]", "}", ",", ":", "="}
        THEN PyParsed(<<>>, r.pos, "unsupported")
        ELSE r

\* an expression that is all of toks
PyWholeExpr(toks) ==
    LET r == Python("PyExpr", <<toks, 0>>)
    IN  IF r.err # "" THEN r
        ELSE IF r.pos < Len(toks) THEN PyParsed(<<>>, r.pos, "unsupported")
        ELSE r

(***************************************************************************)
(* The values of the generated code, and its global names.                 *)
(***************************************************************************)
\* a value: [t, s, n, items], t one of "str" (s), "int" and "bool" (n), "none",
\* "dict" (a dictionary of the context holds its items, in insertion order,
\* and has n = 0; one that the code creates holds the index n of its items in
\* the heap), "func" (s names the function), "list" (the index n of its items
\* in the heap), "template" (a Template whose source is the literal text s)
\* and "coroutine" (the call of a Template's render that returns s)
PyValue(t, s, n, items) == [t |-> t, s |-> s, n |-> n, items |-> items]

PyStr(s) == PyValue("str", s, 0, <<>>)

PyNone == PyValue("none", <<>>, 0, <<>>)

PyBool(b) == PyValue("bool", <<>>, IF b THEN 1 ELSE 0, <<>>)

PyFunc(name) == PyValue("func", name, 0, <<>>)

PyDict(items) == PyValue("dict", <<>>, 0, items)

\* the names of the builtins module other than True, False, None and str
PyOtherBuiltins ==
    { <<"A","r","i","t","h","m","e","t","i","c","E","r","r","o","r">>, <<"A","s","s","e","r","t","i","o","n","E","r","r","o","r">>, <<"A","t","t","r","i","b","u","t","e","E","r","r","o","r">>, <<"B","a","s","e","E","x","c","e","p","t","i","o","n">>,
      <<"B","a","s","e","E","x","c","e","p","t","i","o","n","G","r","o","u","p">>, <<"B","l","o","c","k","i","n","g","I","O","E","r","r","o","r">>, <<"B","r","o","k","e","n","P","i","p","e","E","r","r","o","r">>, <<"B","u","f","f","e","r","E","r","r","o","r">>,
      <<"B","y","t","e","s","W","a","r","n","i","n","g">>, <<"C","h","i","l","d","P","r","o","c","e","s","s","E","r","r","o","r">>, <<"C","o","n","n","e","c","t","i","o","n","A","b","o","r","t","e","d","E","r","r","o","r">>, <<"C","o","n","n","e","c","t","i","o","n","E","r","r","o","r">>,
      <<"C","o","n","n","e","c","t","i","o","n","R","e","f","u","s","e","d","E","r","r","o","r">>, <<"C","o","n","n","e","c","t","i","o","n","R","e","s","e","t","E","r","r","o","r">>, <<"D","e","p","r","e","c","a","t","i","o","n","W","a","r","n","i","n","g">>, <<"E","O","F","E","r","r","o","r">>,
      <<"E","l","l","i","p","s","i","s">>, <<"E","n","c","o","d","i","n","g","W","a","r","n","i","n","g">>, <<"E","n","v","i","r","o","n","m","e","n","t","E","r","r","o","r">>, <<"E","x","c","e","p","t","i","o","n">>, <<"E","x","c","e","p","t","i","o","n","G","r","o","u","p">>,
      <<"F","i","l","e","E","x","i","s","t","s","E","r","r","o","r">>, <<"F","i","l","e","N","o","t","F","o","u","n","d","E","r","r","o","r">>, <<"F","l","o","a","t","i","n","g","P","o","i","n","t","E","r","r","o","r">>, <<"F","u","t","u","r","e","W","a","r","n","i","n","g">>,
      <<"G","e","n","e","r","a","t","o","r","E","x","i","t">>, <<"I","O","E","r","r","o","r">>, <<"I","m","p","o","r","t","E","r","r","o","r">>, <<"I","m","p","o","r","t","W","a","r","n","i","n","g">>, <<"I","n","d","e","n","t","a","t","i","o","n","E","r","r","o","r">>,
      <<"I","n","d","e","x","E","r","r","o","r">>, <<"I","n","t","e","r","r","u","p","t","e","d","E","r","r","o","r">>, <<"I","s","A","D","i","r","e","c","t","o","r","y","E","r","r","o","r">>, <<"K","e","y","E","r","r","o","r">>,
      <<"K","e","y","b","o","a","r","d","I","n","t","e","r","r","u","p","t">>, <<"L","o","o","k","u","p","E","r","r","o","r">>, <<"M","e","m","o","r","y","E","r","r","o","r">>, <<"M","o","d","u","l","e","N","o","t","F","o","u","n","d","E","r","r","o","r">>,
      <<"N","a","m","e","E","r","r","o","r">>, <<"N","o","t","A","D","i","r","e","c","t","o","r","y","E","r","r","o","r">>, <<"N","o","t","I","m","p","l","e","m","e","n","t","e","d">>, <<"N","o","t","I","m","p","l","e","m","e","n","t","e","d","E","r","r","o","r">>,
      <<"O","S","E","r","r","o","r">>, <<"O","v","e","r","f","l","o","w","E","r","r","o","r">>, <<"P","e","n","d","i","n","g","D","e","p","r","e","c","a","t","i","o","n","W","a","r","n","i","n","g">>, <<"P","e","r","m","i","s","s","i","o","n","E","r","r","o","r">>,
      <<"P","r","o","c","e","s","s","L","o","o","k","u","p","E","r","r","o","r">>, <<"R","e","c","u","r","s","i","o","n","E","r","r","o","r">>, <<"R","e","f","e","r","e","n","c","e","E","r","r","o","r">>, <<"R","e","s","o","u","r","c","e","W","a","r","n","i","n","g">>,
      <<"R","u","n","t","i","m","e","E","r","r","o","r">>, <<"R","u","n","t","i","m","e","W","a","r","n","i","n","g">>, <<"S","t","o","p","A","s","y","n","c","I","t","e","r","a","t","i","o","n">>, <<"S","t","o","p","I","t","e","r","a","t","i","o","n">>,
      <<"S","y","n","t","a","x","E","r","r","o","r">>, <<"S","y","n","t","a","x","W","a","r","n","i","n","g">>, <<"S","y","s","t","e","m","E","r","r","o","r">>, <<"S","y","s","t","e","m","E","x","i","t">>, <<"T","a","b","E","r","r","o","r">>,
      <<"T","i","m","e","o","u","t","E","r","r","o","r">>, <<"T","y","p","e","E","r","r","o","r">>, <<"U","n","b","o","u","n","d","L","o","c","a","l","E","r","r","o","r">>, <<"U","n","i","c","o","d","e","D","e","c","o","d","e","E","r","r","o","r">>,
      <<"U","n","i","c","o","d","e","E","n","c","o","d","e","E","r","r","o","r">>, <<"U","n","i","c","o","d","e","E","r","r","o","r">>, <<"U","n","i","c","o","d","e","T","r","a","n","s","l","a","t","e","E","r","r","o","r">>, <<"U","n","i","c","o","d","e","W","a","r","n","i","n","g">>,
      <<"U","s","e","r","W","a","r","n","i","n","g">>, <<"V","a","l","u","e","E","r","r","o","r">>, <<"W","a","r","n","i","n","g">>, <<"Z","e","r","o","D","i","v","i","s","i","o","n","E","r","r","o","r">>, <<"_","_","b","u","i","l","d","_","c","l","a","s","s","_","_">>,
      <<"_","_","d","e","b","u","g","_","_">>, <<"_","_","d","o","c","_","_">>, <<"_","_","i","m","p","o","r","t","_","_">>, <<"_","_","l","o","a","d","e","r","_","_">>, <<"_","_","n","a","m","e","_","_">>, <<"_","_","p","a","c","k","a","g","e","_","_">>,
      <<"_","_","s","p","e","c","_","_">>, <<"a","b","s">>, <<"a","i","t","e","r">>, <<"a","l","l">>, <<"a","n","e","x","t">>, <<"a","n","y">>, <<"a","s","c","i","i">>, <<"b","i","n">>, <<"b","o","o","l">>,
      <<"b","r","e","a","k","p","o","i","n","t">>, <<"b","y","t","e","a","r","r","a","y">>, <<"b","y","t","e","s">>, <<"c","a","l","l","a","b","l","e">>, <<"c","h","r">>, <<"c","l","a","s","s","m","e","t","h","o","d">>, <<"c","o","m","p","i","l","e">>,
      <<"c","o","m","p","l","e","x">>, <<"c","o","p","y","r","i","g","h","t">>, <<"c","r","e","d","i","t","s">>, <<"d","e","l","a","t","t","r">>, <<"d","i","c","t">>, <<"d","i","r">>, <<"d","i","v","m","o","d">>,
      <<"e","n","u","m","e","r","a","t","e">>, <<"e","v","a","l">>, <<"e","x","e","c">>, <<"e","x","i","t">>, <<"f","i","l","t","e","r">>, <<"f","l","o","a","t">>, <<"f","o","r","m","a","t">>, <<"f","r","o","z","e","n","s","e","t">>,
      <<"g","e","t","a","t","t","r">>, <<"g","l","o","b","a","l","s">>, <<"h","a","s","a","t","t","r">>, <<"h","a","s","h">>, <<"h","e","l","p">>, <<"h","e","x">>, <<"i","d">>, <<"i","n","p","u","t">>, <<"i","n","t">>,
      <<"i","s","i","n","s","t","a","n","c","e">>, <<"i","s","s","u","b","c","l","a","s","s">>, <<"i","t","e","r">>, <<"l","e","n">>, <<"l","i","c","e","n","s","e">>, <<"l","i","s","t">>, <<"l","o","c","a","l","s">>, <<"m","a","p">>,
      <<"m","a","x">>, <<"m","e","m","o","r","y","v","i","e","w">>, <<"m","i","n">>, <<"n","e","x","t">>, <<"o","b","j","e","c","t">>, <<"o","c","t">>, <<"o","p","e","n">>, <<"o","r","d">>, <<"p","o","w">>,
      <<"p","r","i","n","t">>, <<"p","r","o","p","e","r","t","y">>, <<"q","u","i","t">>, <<"r","a","n","g","e">>, <<"r","e","p","r">>, <<"r","e","v","e","r","s","e","d">>, <<"r","o","u","n","d">>, <<"s","e","t">>,
      <<"s","e","t","a","t","t","r">>, <<"s","l","i","c","e">>, <<"s","o","r","t","e","d">>, <<"s","t","a","t","i","c","m","e","t","h","o","d">>, <<"s","u","m">>, <<"s","u","p","e","r">>, <<"t","u","p","l","e">>, <<"t","y","p","e">>,
      <<"v","a","r","s">>, <<"z","i","p">> }

\* PyxmCompiler._create_builtin_filters; a function named "other" is one whose
\* result is not determined here
builtin_filters ==
    << <<<<"e","s","c","a","p","e">>, PyFunc(<<"h","t","m","l","_","e","s","c","a","p","e">>)>>, <<<<"e">>, PyFunc(<<"h","t","m","l","_","e","s","c","a","p","e">>)>>,
       <<<<"s","a","f","e">>, PyFunc(<<"s","a","f","e">>)>>, <<<<"u","p","p","e","r">>, PyFunc(<<"u","p","p","e","r">>)>>,
       <<<<"l","o","w","e","r">>, PyFunc(<<"l","o","w","e","r">>)>>, <<<<"t","i","t","l","e">>, PyFunc(<<"o","t","h","e","r">>)>>,
       <<<<"s","t","r","i","p">>, PyFunc(<<"s","t","r","i","p">>)>>, <<<<"l","e","n","g","t","h">>, PyFunc(<<"o","t","h","e","r">>)>>,
       <<<<"f","i","r","s","t">>, PyFunc(<<"o","t","h","e","r">>)>>, <<<<"l","a","s","t">>, PyFunc(<<"o","t","h","e","r">>)>>,
       <<<<"j","o","i","n">>, PyFunc(<<"o","t","h","e","r">>)>>, <<<<"d","e","f","a","u","l","t">>, PyFunc(<<"d","e","f","a","u","l","t">>)>>,
       <<<<"i","n","t">>, PyFunc(<<"o","t","h","e","r">>)>>, <<<<"f","l","o","a","t">>, PyFunc(<<"o","t","h","e","r">>)>>,
       <<<<"s","t","r">>, PyFunc(<<"s","t","r">>)>>, <<<<"b","o","o","l">>, PyFunc(<<"o","t","h","e","r">>)>>,
       <<<<"l","i","s","t">>, PyFunc(<<"o","t","h","e","r">>)>>, <<<<"d","i","c","t">>, PyFunc(<<"o","t","h","e","r">>)>>,
       <<<<"j","s","o","n">>, PyFunc(<<"o","t","h","e","r">>)>> >>

\* the namespace handed to exec, with the function that exec defines
namespace ==
    << <<<<"_","_","b","u","i","l","t","i","n","s","_","e","s","c","a","p","e","_","_">>, PyFunc(<<"h","t","m","l","_","e","s","c","a","p","e">>)>>,
       <<<<"_","f","i","l","t","e","r","s">>, PyDict(builtin_filters)>>,
       <<<<"_","r","e","n","d","e","r">>, PyFunc(<<"o","t","h","e","r">>)>> >>

HasKey(d, k) == \E i \in 1..Len(d) : d[i][1] = k

GetKey(d, k) == d[CHOOSE i \in 1..Len(d) : d[i][1] = k][2]

(***************************************************************************)
(* The statements of the generated code and their block structure.         *)
(***************************************************************************)
\* a statement: [k, name, e, branches, orelse]; k is "expr" (e), "assign"
\* (name = e), "if" (branches of [cond, body], orelse an Optional body),
\* "for" (for name in e, with the body in branches[1].body), "setitem"
\* (name[key] = e) and "augitem" (name[key] += e), both with the key in
\* branches[1].cond, "output" (_output = []), "append" (_append =
\* _output.append) or "return" (return ''.join(_output))
PyStmt(k, name, e, branches, orelse) ==
    [k |-> k, name |-> name, e |-> e, branches |-> branches, orelse |-> orelse]

\* one logical line, without its indentation: [hdr, stmt, err], hdr one of
\* "simple", "if", "elif", "else", "for"
PyLine(hdr, stmt, err) == [hdr |-> hdr, stmt |-> stmt, err |-> err]

\* the statement of a line, given its tokens t
PyStatementOf(text, t) ==
    LET toks == t.toks
        b == PyBrackets(toks, 0, <<>>)
        n == Len(toks)
        cond == Python("PyWholeExpr", <<SubSeq(toks, 2, n - 1)>>)
        rhs == Python("PyWholeExpr", <<SubSeq(toks, 3, n)>>)
        whole == Python("PyWholeExpr", <<toks>>)
        iter == Python("PyWholeExpr", <<SubSeq(toks, 4, n - 1)>>)
        key == Python("PyExpr", <<toks, 2>>)
        aug == IsOp(toks, key.pos + 1, "+")
        item == Python("PyWholeExpr", <<SubSeq(toks, key.pos + (IF aug THEN 4 ELSE 3), n)>>)
        \* which form of statement the line has
        form ==
            IF text = <<"_","o","u","t","p","u","t"," ","="," ","[","]">> THEN "output"
            ELSE IF text = <<"_","a","p","p","e","n","d"," ","="," ","_","o","u","t","p","u","t",".","a","p","p","e","n","d">>
            THEN "append"
            ELSE IF text = <<"r","e","t","u","r","n"," ","'","'",".","j","o","i","n","(","_","o","u","t","p","u","t",")">>
            THEN "return"
            ELSE IF t.err # "" THEN "tokens"
            ELSE IF b # "" THEN "brackets"
            ELSE IF toks[1].k = "name" /\ toks[1].v \in {<<"i","f">>, <<"e","l","i","f">>} THEN "if"
            ELSE IF toks[1].k = "name" /\ toks[1].v = <<"e","l","s","e">> THEN "else"
            ELSE IF toks[1].k = "name" /\ toks[1].v = <<"f","o","r">> THEN "for"
            ELSE IF toks[1].k = "name" /\ toks[1].v \in PyKeywords \ {<<"T","r","u","e">>, <<"F","a","l","s","e">>, <<"N","o","n","e">>, <<"a","w","a","i","t">>}
            THEN "keyword"
            ELSE IF n >= 5 /\ toks[1].k = "name" /\ IsOp(toks, 1, "[") /\ key.err = ""
                    /\ IsOp(toks, key.pos, "]")
                    /\ (\/ IsOp(toks, key.pos + 1, "=") /\ ~IsOp(toks, key.pos + 2, "=")
                        \/ aug /\ IsOp(toks, key.pos + 2, "=") /\ ~IsOp(toks, key.pos + 3, "="))
            THEN "item"
            ELSE IF n >= 2 /\ toks[1].k = "name" /\ IsOp(toks, 1, "=") /\ ~IsOp(toks, 2, "=")
            THEN "assign"
            ELSE "expr"
    IN  CASE form = "output" -> PyLine("simple", PyStmt("output", <<>>, <<>>, <<>>, <<>>), "")
          [] form = "append" -> PyLine("simple", PyStmt("append", <<>>, <<>>, <<>>, <<>>), "")
          [] form = "return" -> PyLine("simple", PyStmt("return", <<>>, <<>>, <<>>, <<>>), "")
          [] form = "tokens" -> PyLine("simple", <<>>, t.err)
          [] form = "brackets" -> PyLine("simple", <<>>, b)
          [] form = "if" ->
                IF ~IsOp(toks, n - 1, ":")
                THEN PyLine("simple", <<>>,
                            IF \E i \in 0..(n - 1) : IsOp(toks, i, ":") THEN "unsupported"
                            ELSE "SyntaxError")
                ELSE IF cond.err # "" THEN PyLine("simple", <<>>, cond.err)
                ELSE PyLine(IF toks[1].v = <<"i","f">> THEN "if" ELSE "elif",
                            PyStmt("if", <<>>, <<>>, <<[cond |-> cond.ast, body |-> <<>>]>>, <<>>), "")
          [] form = "else" ->
                IF n = 2 /\ IsOp(toks, 1, ":")
                THEN PyLine("else", <<>>, "")
                ELSE PyLine("simple", <<>>, "unsupported")
          [] form = "for" ->
                IF ~(n >= 5 /\ IsOp(toks, n - 1, ":") /\ toks[2].k = "name"
                     /\ toks[2].v \notin PyKeywords
                     /\ toks[3].k = "name" /\ toks[3].v = <<"i","n">>)
                THEN PyLine("simple", <<>>, "unsupported")
                ELSE IF iter.err # "" THEN PyLine("simple", <<>>, iter.err)
                ELSE PyLine("for", PyStmt("for", toks[2].v, iter.ast,
                                          <<[cond |-> <<>>, body |-> <<>>]>>, <<>>), "")
          [] form = "keyword" -> PyLine("simple", <<>>, "unsupported")
          [] form = "item" ->
                IF item.err # "" THEN PyLine("simple", <<>>, item.err)
                ELSE PyLine("simple", PyStmt(IF aug THEN "augitem" ELSE "setitem", toks[1].v, item.ast,
                                             <<[cond |-> key.ast, body |-> <<>>]>>, <<>>), "")
          [] form = "assign" ->
                IF rhs.err # "" THEN PyLine("simple", <<>>, rhs.err)
                ELSE PyLine("simple", PyStmt("assign", toks[1].v, rhs.ast, <<>>, <<>>), "")
          [] form = "expr" ->
                IF whole.err # "" THEN PyLine("simple", <<>>, whole.err)
                ELSE PyLine("simple", PyStmt("expr", <<>>, whole.ast, <<>>, <<>>), "")

\* the statement of one logical line
PyStatement(text) ==
    CHOOSE r \in { PyStatementOf(text, t) : t \in {Python("PyTokens", <<text, 0, <<>>>>)} } : TRUE

\* the logical lines of the code: [ind, text] for every line that is not
\* blank; ind is -1 for a line whose indentation is not made of spaces
PyLines(code) ==
    LET phys == Split(code, "\n")
        ind(l) == SpanEnd(l, 0, {" "})
        blank(l) == ind(l) >= Len(l) \/ l[ind(l) + 1] = "#"
    IN  [i \in 1..Len(phys) |->
            IF blank(phys[i]) THEN [ind |-> -2, text |-> <<>>]
            ELSE IF phys[i][ind(phys[i]) + 1] \in {"\t", "\f", "\r"}
            THEN [ind |-> -1, text |-> <<>>]
            ELSE [ind |-> ind(phys[i]), text |-> Slice(phys[i], ind(phys[i]), Len(phys[i]))]]

\* The suite parser binds what it passes on with CHOOSE over a one-element
\* set: a bound value is evaluated once, where an operator's argument is
\* evaluated again at every use.  L holds the logical lines with the
\* statement s that each one parses to.
RECURSIVE PySuite(_, _, _, _)
\* the suite after the compound statement s of line i, given its body
PySuiteBody(L, i, ind, acc, s, body) ==
    IF body.err # "" THEN [stmts |-> acc, next |-> body.next, err |-> body.err]
    ELSE IF body.next <= Len(L) /\ L[body.next].ind > ind
    THEN [stmts |-> acc, next |-> body.next, err |-> "SyntaxError"]
    ELSE CHOOSE r \in
             { PySuite(L, body.next, ind, a) :
                 a \in { IF s.hdr \in {"if", "for"}
                         THEN Append(acc, [s.stmt EXCEPT !.branches[1].body = body.stmts])
                         ELSE IF s.hdr = "elif"
                         THEN [acc EXCEPT ![Len(acc)].branches =
                                   Append(@, [cond |-> s.stmt.branches[1].cond, body |-> body.stmts])]
                         ELSE [acc EXCEPT ![Len(acc)].orelse = Some(body.stmts)] } } : TRUE

\* the statements of the lines from i on that are indented by ind:
\* [stmts, next, err]
PySuite(L, i, ind, acc) ==
    IF i > Len(L) \/ L[i].ind < ind THEN [stmts |-> acc, next |-> i, err |-> ""]
    ELSE IF L[i].ind > ind THEN [stmts |-> acc, next |-> i, err |-> "SyntaxError"]
    ELSE IF L[i].s.err # "" THEN [stmts |-> acc, next |-> i, err |-> L[i].s.err]
    ELSE IF L[i].s.hdr = "simple"
    THEN CHOOSE r \in { PySuite(L, j, ind, a) : j \in {i + 1}, a \in {Append(acc, L[i].s.stmt)} } : TRUE
    ELSE IF L[i].s.hdr = "else" /\ acc # <<>> /\ acc[Len(acc)].k = "for"
    THEN [stmts |-> acc, next |-> i, err |-> "unsupported"]
    ELSE IF L[i].s.hdr \in {"elif", "else"}
            /\ (acc = <<>> \/ acc[Len(acc)].k # "if" \/ acc[Len(acc)].orelse # <<>>)
    THEN [stmts |-> acc, next |-> i, err |-> "SyntaxError"]
    ELSE IF i + 1 > Len(L) \/ L[i + 1].ind <= ind
    THEN [stmts |-> acc, next |-> i, err |-> "SyntaxError"]
    ELSE CHOOSE r \in { PySuiteBody(L, i, ind, acc, L[i].s, body) :
                          body \in {PySuite(L, i + 1, L[i + 1].ind, <<>>)} } : TRUE

\* the body of _render in the logical lines L of the code, or the error
\* that exec raises
PyCompileLines(L) ==
    LET body == PySuite(L, 2, L[2].ind, <<>>)
    IN  IF \E i \in 1..Len(L) : L[i].ind = -1 THEN [err |-> "unsupported", body |-> <<>>]
        ELSE IF L = <<>> \/ L[1].ind # 0 \/ L[1].text # <<"a","s","y","n","c"," ","d","e","f"," ","_","r","e","n","d","e","r","(","_","c","t","x",")",":">>
        THEN [err |-> "unsupported", body |-> <<>>]
        ELSE IF Len(L) < 2 \/ L[2].ind <= 0 THEN [err |-> "SyntaxError", body |-> <<>>]
        ELSE IF body.err # "" THEN [err |-> body.err, body |-> <<>>]
        ELSE IF body.next <= Len(L) THEN [err |-> "unsupported", body |-> <<>>]
        ELSE [err |-> "", body |-> body.stmts]

\* the logical lines P of the code, each with the statement it parses to
PyCompileParsed(P) ==
    CHOOSE r \in
        { PyCompileLines(L) :
            L \in {[i \in 1..Len(P) |->
                       [ind |-> P[i].ind, text |-> P[i].text,
                        s |-> IF i = 1 \/ P[i].ind < 0 THEN [err |-> "", hdr |-> "simple", stmt |-> <<>>]
                              ELSE Python("PyStatement", <<P[i].text>>)]]} } : TRUE

\* compile(code): the body of _render, or the error that exec raises
PyCompile(code) ==
    CHOOSE r \in { PyCompileParsed(P) :
                      P \in {SelectSeq(Python("PyLines", <<code>>), LAMBDA l : l.ind # -2)} } : TRUE

(***************************************************************************)
(* The call of _render.  A frame is [vars, heap, assigned, ret]: the local *)
(* variables that are bound, the lists created so far (a list value holds  *)
(* the index of its items in the heap, so that _append stays bound to the  *)
(* list it was taken from), the names that the function assigns (its local *)
(* names) and the returned text.                                           *)
(***************************************************************************)
PyResult(st, val, err) == [st |-> st, val |-> val, err |-> err]

RECURSIVE DigitsToNat(_)
DigitsToNat(s) ==
    IF s = <<>> THEN 0
    ELSE 10 * DigitsToNat(SubSeq(s, 1, Len(s) - 1))
         + ((CHOOSE j \in 1..10 : DigitSeq[j] = s[Len(s)]) - 1)

\* bool(v): "T", "F", or "U" for a value whose truth is not determined here
PyTruth(v) ==
    CASE v.t = "str"  -> IF v.s # <<>> THEN "T" ELSE "F"
      [] v.t \in {"int", "bool"} -> IF v.n # 0 THEN "T" ELSE "F"
      [] v.t = "none" -> "F"
      [] v.t = "dict" /\ v.n = 0 -> IF v.items # <<>> THEN "T" ELSE "F"
      [] v.t \in {"func", "template", "coroutine"} -> "T"
      [] OTHER        -> "U"

\* a name, read inside _render
PyLookup(name, st) ==
    IF name = <<"_","c","t","x">> \/ name \in st.assigned
    THEN IF HasKey(st.vars, name) THEN PyResult(st, GetKey(st.vars, name), "")
         ELSE PyResult(st, PyNone, "NameError")
    ELSE IF HasKey(namespace, name) THEN PyResult(st, GetKey(namespace, name), "")
    ELSE IF name = <<"s","t","r">> THEN PyResult(st, PyFunc(<<"s","t","r">>), "")
    ELSE IF name \in PyOtherBuiltins THEN PyResult(st, PyNone, "unsupported")
    ELSE PyResult(st, PyNone, "NameError")

\* the items of a dictionary
PyItemsOf(st, v) == IF v.n = 0 THEN v.items ELSE st.heap[v.n]

\* v[i]
PySubscript(st, v, i) ==
    CASE v.t = "dict" ->
             IF i.t \in {"dict", "list"} THEN PyResult(st, PyNone, "TypeError")
             ELSE IF i.t = "str" /\ HasKey(PyItemsOf(st, v), i.s)
             THEN PyResult(st, GetKey(PyItemsOf(st, v), i.s), "")
             ELSE PyResult(st, PyNone, "KeyError")
      [] v.t \in {"int", "bool", "none", "template", "coroutine"} -> PyResult(st, PyNone, "TypeError")
      [] OTHER -> PyResult(st, PyNone, "unsupported")

\* x in c
PyContains(st, x, c) ==
    CASE c.t = "dict" ->
             IF x.t \in {"dict", "list"} THEN PyResult(st, PyNone, "TypeError")
             ELSE PyResult(st, PyBool(x.t = "str" /\ HasKey(PyItemsOf(st, c), x.s)), "")
      [] c.t = "str" ->
             IF x.t # "str" THEN PyResult(st, PyNone, "TypeError")
             ELSE PyResult(st, PyBool(\E p \in 0..Len(c.s) : MatchAt(c.s, p, x.s)), "")
      [] c.t = "list" ->
             IF x.t # "str" \/ \E k \in 1..Len(st.heap[c.n]) : st.heap[c.n][k].t \notin {"str", "none"}
             THEN PyResult(st, PyNone, "unsupported")
             ELSE PyResult(st, PyBool(\E k \in 1..Len(st.heap[c.n]) : st.heap[c.n][k] = x), "")
      [] c.t \in {"int", "bool", "none", "func", "template", "coroutine"} ->
             PyResult(st, PyNone, "TypeError")
      [] OTHER -> PyResult(st, PyNone, "unsupported")

\* x is y: None, True and False are the only objects of their values; whether
\* two equal strings or numbers are one object is not determined here
PyIdentical(st, x, y) ==
    IF x.t \in {"none", "bool"} \/ y.t \in {"none", "bool"} THEN PyResult(st, PyBool(x = y), "")
    ELSE IF x.t # y.t THEN PyResult(st, PyBool(FALSE), "")
    ELSE IF x.t \in {"list", "dict"} /\ x.n > 0 /\ y.n > 0 THEN PyResult(st, PyBool(x.n = y.n), "")
    ELSE PyResult(st, PyNone, "unsupported")

\* o.name(args): dict.get, and the render of a Template, which returns its
\* literal text when it is awaited
PyMethod(st, o, name, args) ==
    LET n == Len(args)
    IN  IF o.t = "dict" /\ name = <<"g","e","t">>
        THEN IF n \notin {1, 2} \/ args[1].t \in {"dict", "list"} THEN PyResult(st, PyNone, "TypeError")
             ELSE IF args[1].t = "str" /\ HasKey(PyItemsOf(st, o), args[1].s)
             THEN PyResult(st, GetKey(PyItemsOf(st, o), args[1].s), "")
             ELSE PyResult(st, IF n = 2 THEN args[2] ELSE PyNone, "")
        ELSE IF o.t = "template" /\ name = <<"r","e","n","d","e","r">>
        THEN IF n > 1 THEN PyResult(st, PyNone, "TypeError")
             ELSE PyResult(st, PyValue("coroutine", o.s, 0, <<>>), "")
        ELSE PyResult(st, PyNone, "unsupported")

\* await v
PyAwaited(st, v) ==
    IF v.t = "coroutine" THEN PyResult(st, PyStr(v.s), "")
    ELSE PyResult(st, PyNone, "TypeError")

\* the dictionary of a display, from its keys and values as they alternate
RECURSIVE PyDictOf(_, _)
PyDictOf(vals, acc) ==
    IF vals = <<>> THEN acc
    ELSE PyDictOf(SubSeq(vals, 3, Len(vals)), PairsPut(acc, vals[1].s, vals[2]))

\* f(args)
PyApply(st, f, args) ==
    LET n == Len(args)
    IN  IF f.t # "func" THEN PyResult(st, PyNone, "TypeError")
        ELSE CASE f.s = <<"_","a","p","p","e","n","d">> ->
                      IF n = 1 THEN PyResult([st EXCEPT !.heap[f.n] = Append(@, args[1])], PyNone, "")
                      ELSE PyResult(st, PyNone, "TypeError")
               [] f.s = <<"h","t","m","l","_","e","s","c","a","p","e">> ->
                      IF n = 1
                      THEN IF args[1].t = "str" THEN PyResult(st, PyStr(html_escape(args[1].s)), "")
                           ELSE IF args[1].t = "func" /\ args[1].s = <<"o","t","h","e","r">>
                           THEN PyResult(st, PyNone, "unsupported")
                           ELSE IF args[1].t = "func" /\ args[1].s = <<"s","t","r">>
                           THEN PyResult(st, PyNone, "TypeError")
                           ELSE PyResult(st, PyNone, "AttributeError")
                      ELSE IF n = 2 THEN PyResult(st, PyNone, "unsupported")
                      ELSE PyResult(st, PyNone, "TypeError")
               [] f.s = <<"s","t","r">> ->
                      IF n = 0 THEN PyResult(st, PyStr(<<>>), "")
                      ELSE IF n > 1 THEN PyResult(st, PyNone, "unsupported")
                      ELSE CASE args[1].t = "str"  -> PyResult(st, args[1], "")
                             [] args[1].t = "bool" ->
                                    PyResult(st, PyStr(IF args[1].n = 1 THEN <<"T","r","u","e">> ELSE <<"F","a","l","s","e">>), "")
                             [] args[1].t = "none" -> PyResult(st, PyStr(<<"N","o","n","e">>), "")
                             [] args[1].t = "int"  -> PyResult(st, PyStr(NatStr(args[1].n)), "")
                             [] OTHER -> PyResult(st, PyNone, "unsupported")
               [] f.s = <<"s","a","f","e">> ->
                      IF n = 1 THEN PyResult(st, args[1], "") ELSE PyResult(st, PyNone, "TypeError")
               [] f.s \in {<<"u","p","p","e","r">>, <<"l","o","w","e","r">>, <<"s","t","r","i","p">>} ->
                      IF n >= 2 /\ f.s = <<"s","t","r","i","p">> THEN PyResult(st, PyNone, "unsupported")
                      ELSE IF n # 1 \/ args[1].t # "str" THEN PyResult(st, PyNone, "TypeError")
                      ELSE IF f.s = <<"u","p","p","e","r">> THEN PyResult(st, PyStr(ToUpper(args[1].s)), "")
                      ELSE IF f.s = <<"l","o","w","e","r">> THEN PyResult(st, PyStr(ToLower(args[1].s)), "")
                      ELSE PyResult(st, PyStr(Strip(args[1].s)), "")
               [] f.s = <<"d","e","f","a","u","l","t">> ->
                      IF n \notin {1, 2} THEN PyResult(st, PyNone, "TypeError")
                      ELSE IF PyTruth(args[1]) = "U" THEN PyResult(st, PyNone, "unsupported")
                      ELSE IF PyTruth(args[1]) = "T" THEN PyResult(st, args[1], "")
                      ELSE PyResult(st, IF n = 2 THEN args[2] ELSE PyStr(<<>>), "")
               [] OTHER -> PyResult(st, PyNone, "unsupported")

RECURSIVE PyEval(_, _)
RECURSIVE PyEvalArgs(_, _, _)

\* the arguments of a call, left to right
PyEvalArgs(args, st, acc) ==
    IF args = <<>> THEN [st |-> st, vals |-> acc, err |-> ""]
    ELSE LET r == Python("PyEval", <<Head(args), st>>)
         IN  IF r.err # "" THEN [st |-> r.st, vals |-> acc, err |-> r.err]
             ELSE PyEvalArgs(Tail(args), r.st, Append(acc, r.val))

PyEval(e, st) ==
    CASE e.k = "name"  -> PyLookup(e.v, st)
      [] e.k = "str"   -> PyResult(st, PyStr(e.v), "")
      [] e.k = "num"   -> PyResult(st, PyValue("int", <<>>, DigitsToNat(e.v), <<>>), "")
      [] e.k = "const" ->
             PyResult(st, IF e.v = <<"N","o","n","e">> THEN PyNone ELSE PyBool(e.v = <<"T","r","u","e">>), "")
      [] e.k = "sub"   ->
             LET f == PyEval(e.f, st)
                 i == PyEval(e.args[1], f.st)
             IN  IF f.err # "" THEN f
                 ELSE IF i.err # "" THEN i
                 ELSE PySubscript(i.st, f.val, i.val)
      [] e.k = "call" /\ e.f.k # "attr" ->
             LET f == PyEval(e.f, st)
                 a == Python("PyEvalArgs", <<e.args, f.st, <<>>>>)
             IN  IF f.err # "" THEN f
                 ELSE IF a.err # "" THEN PyResult(a.st, PyNone, a.err)
                 ELSE PyApply(a.st, f.val, a.vals)
      [] e.k = "call" /\ e.f.k = "attr" ->
             LET o == PyEval(e.f.f, st)
                 a == Python("PyEvalArgs", <<e.args, o.st, <<>>>>)
             IN  IF o.err # "" THEN o
                 ELSE IF ~(\/ o.val.t = "dict" /\ e.f.v = <<"g","e","t">>
                           \/ o.val.t = "template" /\ e.f.v = <<"r","e","n","d","e","r">>)
                 THEN PyResult(o.st, PyNone, "unsupported")
                 ELSE IF a.err # "" THEN PyResult(a.st, PyNone, a.err)
                 ELSE PyMethod(a.st, o.val, e.f.v, a.vals)
      [] e.k = "attr"  ->
             LET o == PyEval(e.f, st)
             IN  IF o.err # "" THEN o ELSE PyResult(o.st, PyNone, "unsupported")
      [] e.k = "in"    ->
             LET x == PyEval(e.f, st)
                 c == PyEval(e.args[1], x.st)
             IN  IF x.err # "" THEN x
                 ELSE IF c.err # "" THEN c
                 ELSE PyContains(c.st, x.val, c.val)
      [] e.k = "add"   ->
             LET x == PyEval(e.f, st)
                 y == PyEval(e.args[1], x.st)
             IN  IF x.err # "" THEN x
                 ELSE IF y.err # "" THEN y
                 ELSE Python("PyAdd", <<y.st, x.val, y.val>>)
      [] e.k \in {"is", "isnot"} ->
             LET x == PyEval(e.f, st)
                 y == PyEval(e.args[1], x.st)
                 r == PyIdentical(y.st, x.val, y.val)
             IN  IF x.err # "" THEN x
                 ELSE IF y.err # "" THEN y
                 ELSE IF r.err # "" \/ e.k = "is" THEN r
                 ELSE PyResult(r.st, PyBool(r.val.n = 0), "")
      [] e.k = "await" ->
             LET v == PyEval(e.f, st)
             IN  IF v.err # "" THEN v ELSE PyAwaited(v.st, v.val)
      [] e.k = "list"  ->
             LET a == Python("PyEvalArgs", <<e.args, st, <<>>>>)
             IN  IF a.err # "" THEN PyResult(a.st, PyNone, a.err)
                 ELSE PyResult([a.st EXCEPT !.heap = Append(@, a.vals)],
                               PyValue("list", <<>>, Len(a.st.heap) + 1, <<>>), "")
      [] e.k = "dict"  ->
             LET a == Python("PyEvalArgs", <<e.args, st, <<>>>>)
                 keys == {a.vals[2 * j - 1] : j \in 1..(Len(a.vals) \div 2)}
             IN  IF a.err # "" THEN PyResult(a.st, PyNone, a.err)
                 ELSE IF \E k \in keys : k.t \in {"dict", "list"} THEN PyResult(a.st, PyNone, "TypeError")
                 ELSE IF \E k \in keys : k.t # "str" THEN PyResult(a.st, PyNone, "unsupported")
                 ELSE PyResult([a.st EXCEPT !.heap = Append(@, PyDictOf(a.vals, <<>>))],
                               PyValue("dict", <<>>, Len(a.st.heap) + 1, <<>>), "")

\* the names that a suite assigns
RECURSIVE PyAssigned(_)
PyAssigned(stmts) ==
    UNION { CASE stmts[i].k = "assign" -> {stmts[i].name}
              [] stmts[i].k = "output" -> {<<"_","o","u","t","p","u","t">>}
              [] stmts[i].k = "append" -> {<<"_","a","p","p","e","n","d">>}
              [] stmts[i].k = "for" -> {stmts[i].name} \cup PyAssigned(stmts[i].branches[1].body)
              [] stmts[i].k = "if" ->
                     UNION ({PyAssigned(stmts[i].branches[j].body) :
                                 j \in 1..Len(stmts[i].branches)}
                            \cup {IF stmts[i].orelse = <<>> THEN {}
                                  ELSE PyAssigned(stmts[i].orelse[1])})
              [] OTHER -> {}
            : i \in 1..Len(stmts) }

IsOutputList(st) == HasKey(st.vars, <<"_","o","u","t","p","u","t">>) /\ GetKey(st.vars, <<"_","o","u","t","p","u","t">>).t = "list"

\* the heap index of the list bound to _output
OutputList(st) == GetKey(st.vars, <<"_","o","u","t","p","u","t">>).n

RECURSIVE PyExec(_, _, _)
RECURSIVE PyExecIf(_, _, _)
RECURSIVE PyExecFor(_, _, _, _)

\* what a for statement iterates over: [list, items, err], a list by its
\* index in the heap, where the iterator reads it item by item, and a string
\* or the keys of a dictionary as items
PyIterate(st, v) ==
    CASE v.t = "list" -> [list |-> v.n, items |-> <<>>, err |-> ""]
      [] v.t = "str" ->
             [list |-> 0, items |-> [j \in 1..Len(v.s) |-> PyStr(<<v.s[j]>>)], err |-> ""]
      [] v.t = "dict" ->
             [list |-> 0,
              items |-> [j \in 1..Len(PyItemsOf(st, v)) |-> PyStr(PyItemsOf(st, v)[j][1])],
              err |-> ""]
      [] v.t \in {"int", "bool", "none", "func", "template", "coroutine"} ->
             [list |-> 0, items |-> <<>>, err |-> "TypeError"]
      [] OTHER -> [list |-> 0, items |-> <<>>, err |-> "unsupported"]

\* a + b
PyAdd(st, a, b) ==
    IF a.t \in {"int", "bool"} /\ b.t \in {"int", "bool"}
    THEN PyResult(st, PyValue("int", <<>>, a.n + b.n, <<>>), "")
    ELSE IF a.t = "str" /\ b.t = "str" THEN PyResult(st, PyStr(a.s \o b.s), "")
    ELSE PyResult(st, PyNone, "unsupported")

\* d[k] = v for the value d of a name: [st, status]
PyStore(st, d, k, v) ==
    IF d.t \in {"str", "int", "bool", "none", "func", "template", "coroutine"}
    THEN [st |-> st, status |-> "TypeError"]
    ELSE IF d.t # "dict" \/ d.n = 0 THEN [st |-> st, status |-> "unsupported"]
    ELSE IF k.t \in {"dict", "list"} THEN [st |-> st, status |-> "TypeError"]
    ELSE IF k.t # "str" THEN [st |-> st, status |-> "unsupported"]
    ELSE [st |-> [st EXCEPT !.heap[d.n] = PairsPut(@, k.s, v)], status |-> ""]

\* name[key] = e: the value, then the name, then the key
PySetItem(s, st) ==
    LET v == Python("PyEval", <<s.e, st>>)
        d == PyLookup(s.name, v.st)
        k == Python("PyEval", <<s.branches[1].cond, v.st>>)
    IN  IF v.err # "" THEN [st |-> v.st, status |-> v.err]
        ELSE IF d.err # "" THEN [st |-> v.st, status |-> d.err]
        ELSE IF k.err # "" THEN [st |-> k.st, status |-> k.err]
        ELSE PyStore(k.st, d.val, k.val, v.val)

\* name[key] += e: the name, the key, the item, the value, the sum
PyAugItem(s, st) ==
    LET d == PyLookup(s.name, st)
        k == Python("PyEval", <<s.branches[1].cond, st>>)
        old == PySubscript(k.st, d.val, k.val)
        v == Python("PyEval", <<s.e, k.st>>)
        sum == PyAdd(v.st, old.val, v.val)
    IN  IF d.err # "" THEN [st |-> st, status |-> d.err]
        ELSE IF k.err # "" THEN [st |-> k.st, status |-> k.err]
        ELSE IF old.err # "" THEN [st |-> k.st, status |-> old.err]
        ELSE IF v.err # "" THEN [st |-> v.st, status |-> v.err]
        ELSE IF sum.err # "" THEN [st |-> v.st, status |-> sum.err]
        ELSE PyStore(v.st, d.val, k.val, sum.val)

\* the iterations of a for statement from the k-th item on: [st, status]
PyExecFor(s, it, k, st) ==
    LET items == IF it.list # 0 THEN st.heap[it.list] ELSE it.items
        b == Python("PyExec", <<s.branches[1].body, 1,
                               [st EXCEPT !.vars = PairsPut(@, s.name, items[k])]>>)
    IN  IF k > Len(items) THEN [st |-> st, status |-> ""]
        ELSE IF b.status # "" THEN b
        ELSE PyExecFor(s, it, k + 1, b.st)

\* the branches of an if statement from the j-th on: [st, status]
PyExecIf(s, j, st) ==
    IF j > Len(s.branches)
    THEN IF s.orelse = <<>> THEN [st |-> st, status |-> ""] ELSE Python("PyExec", <<s.orelse[1], 1, st>>)
    ELSE LET c == Python("PyEval", <<s.branches[j].cond, st>>)
         IN  IF c.err # "" THEN [st |-> c.st, status |-> c.err]
             ELSE IF PyTruth(c.val) = "U" THEN [st |-> c.st, status |-> "unsupported"]
             ELSE IF PyTruth(c.val) = "T" THEN Python("PyExec", <<s.branches[j].body, 1, c.st>>)
             ELSE PyExecIf(s, j + 1, c.st)

\* the statements of a suite from the i-th on: [st, status], status "" at the
\* end of the suite, "return" after the return statement, or the exception
PyExec(stmts, i, st) ==
    IF i > Len(stmts) THEN [st |-> st, status |-> ""]
    ELSE LET s == stmts[i]
             r == Python("PyEval", <<s.e, st>>)
             b == Python("PyExecIf", <<s, 1, st>>)
             out == st.heap[OutputList(st)]
             it == PyIterate(r.st, r.val)
             f == Python("PyExecFor", <<s, it, 1, r.st>>)
             a == IF s.k = "setitem" THEN PySetItem(s, st) ELSE PyAugItem(s, st)
         IN  CASE s.k = "expr" ->
                      IF r.err # "" THEN [st |-> r.st, status |-> r.err]
                      ELSE PyExec(stmts, i + 1, r.st)
               [] s.k = "assign" ->
                      IF r.err # "" THEN [st |-> r.st, status |-> r.err]
                      ELSE PyExec(stmts, i + 1,
                               [r.st EXCEPT !.vars = PairsPut(@, s.name, r.val)])
               [] s.k = "output" ->
                      PyExec(stmts, i + 1,
                          [st EXCEPT !.vars = PairsPut(@, <<"_","o","u","t","p","u","t">>,
                                                  PyValue("list", <<>>, Len(st.heap) + 1, <<>>)),
                                     !.heap = Append(@, <<>>)])
               [] s.k = "append" ->
                      IF ~IsOutputList(st) THEN [st |-> st, status |-> "unsupported"]
                      ELSE PyExec(stmts, i + 1,
                               [st EXCEPT !.vars = PairsPut(@, <<"_","a","p","p","e","n","d">>,
                                             PyValue("func", <<"_","a","p","p","e","n","d">>, OutputList(st), <<>>))])
               [] s.k = "return" ->
                      IF ~IsOutputList(st) THEN [st |-> st, status |-> "unsupported"]
                      ELSE IF \E k \in 1..Len(out) : out[k].t # "str"
                      THEN [st |-> st, status |-> "TypeError"]
                      ELSE [st |-> [st EXCEPT !.ret = Flatten([k \in 1..Len(out) |-> out[k].s])],
                            status |-> "return"]
               [] s.k = "if" ->
                      IF b.status # "" THEN b ELSE PyExec(stmts, i + 1, b.st)
               [] s.k = "for" ->
                      IF r.err # "" THEN [st |-> r.st, status |-> r.err]
                      ELSE IF it.err # "" THEN [st |-> r.st, status |-> it.err]
                      ELSE IF f.status # "" THEN f
                      ELSE PyExec(stmts, i + 1, f.st)
               [] s.k \in {"setitem", "augitem"} ->
                      IF a.status # "" THEN a ELSE PyExec(stmts, i + 1, a.st)

\* await _render(_ctx), for the body of _render and a context dictionary (a
\* sequence of <<key, value>>): [status, html], status "ok" or the exception
PyCall(body, context) ==
    LET st == [vars |-> << <<<<"_","c","t","x">>, PyDict(context)>> >>, heap |-> <<>>,
               assigned |-> PyAssigned(body), ret |-> <<>>]
        r == Python("PyExec", <<body, 1, st>>)
    IN  IF r.status = "return" THEN [status |-> "ok", html |-> r.st.ret]
        ELSE IF r.status = "" THEN [status |-> "unsupported", html |-> <<>>]
        ELSE [status |-> r.status, html |-> <<>>]

\* the steps of exec and of the call that are taken from several places, called by name
Python(m, a) ==
    CASE m = "PyTrailers" -> PyTrailers(a[1], a[2], a[3])
      [] m = "PyExpr" -> PyExpr(a[1], a[2])
      [] m = "PySuite" -> PySuite(a[1], a[2], a[3], a[4])
      [] m = "PyEvalArgs" -> PyEvalArgs(a[1], a[2], a[3])
      [] m = "PyEval" -> PyEval(a[1], a[2])
      [] m = "PyStringBody" -> PyStringBody(a[1], a[2], a[3], a[4])
      [] m = "PyTokens" -> PyTokens(a[1], a[2], a[3])
      [] m = "PyLines" -> PyLines(a[1])
      [] m = "PyTokenAt" -> PyTokenAt(a[1], a[2])
      [] m = "PyAtom" -> PyAtom(a[1], a[2])
      [] m = "PyArgs" -> PyArgs(a[1], a[2], a[3])
      [] m = "PyWholeExpr" -> PyWholeExpr(a[1])
      [] m = "PyStatement" -> PyStatement(a[1])
      [] m = "PyCompile" -> PyCompile(a[1])
      [] m = "PyExecIf" -> PyExecIf(a[1], a[2], a[3])
      [] m = "PyExecFor" -> PyExecFor(a[1], a[2], a[3], a[4])
      [] m = "PyItems" -> PyItems(a[1], a[2], a[3])
      [] m = "PyPairs" -> PyPairs(a[1], a[2], a[3])
      [] m = "PySumRest" -> PySumRest(a[1], a[2], a[3])
      [] m = "PyAdd" -> PyAdd(a[1], a[2], a[3])
      [] m = "PyExec" -> PyExec(a[1], a[2], a[3])
      [] m = "PyCall" -> PyCall(a[1], a[2])

(***************************************************************************)
(* TemplateCache.  The dictionary _cache is a function whose domain is the *)
(* set of cached keys; a CompiledTemplate object is its identity, a        *)
(* positive number, and None is 0.  A frame is one call in progress:       *)
(* [pc, key, template, oldest, ret, exc]; pc names the source line of the  *)
(* statement to execute next.                                              *)
(***************************************************************************)
None == 0

\* TemplateCache.__init__(self, max_size: int = 100)
DefaultMaxSize == 100

EmptyDict == [k \in {} |-> None]

DictSet(d, k, v) == [x \in DOMAIN d \cup {k} |-> IF x = k THEN v ELSE d[x]]

DictDel(d, k) == [x \in DOMAIN d \ {k} |-> d[x]]

InList(l, x) == \E i \in 1..Len(l) : l[i] = x

\* list.remove(x): the list without the first occurrence of x
ListRemove(l, x) ==
    LET i == CHOOSE j \in 1..Len(l) : l[j] = x /\ \A m \in 1..(j - 1) : l[m] # x
    IN  SubSeq(l, 1, i - 1) \o SubSeq(l, i + 1, Len(l))

NewFrame(pc, key, template) ==
    [pc |-> pc, key |-> key, template |-> template, oldest |-> "", ret |-> None, exc |-> ""]

IdleFrame == NewFrame("idle", "", None)

Goto(f, pc) == [f EXCEPT !.pc = pc]

Return(f, value) == [f EXCEPT !.pc = "done", !.ret = value]

Raise(f, exc) == [f EXCEPT !.pc = "raised", !.exc = exc]

\* TemplateCache.get, statement by statement
get_565(ms, cs, f) ==
    IF f.key \in DOMAIN cs.cache
    THEN [cs |-> cs, f |-> Goto(f, "get_567")]
    ELSE [cs |-> cs, f |-> Return(f, None)]

\* get without the promotion: the access order is left as it was
get_567_no_promotion(ms, cs, f) ==
    [cs |-> cs, f |-> Goto(f, "get_569")]

get_567(ms, cs, f) ==
    IF InList(cs.order, f.key)
    THEN [cs |-> [cs EXCEPT !.order = ListRemove(@, f.key)], f |-> Goto(f, "get_568")]
    ELSE [cs |-> cs, f |-> Raise(f, "ValueError")]

get_568(ms, cs, f) ==
    [cs |-> [cs EXCEPT !.order = Append(@, f.key)], f |-> Goto(f, "get_569")]

get_569(ms, cs, f) ==
    IF f.key \in DOMAIN cs.cache
    THEN [cs |-> cs, f |-> Return(f, cs.cache[f.key])]
    ELSE [cs |-> cs, f |-> Raise(f, "KeyError")]

\* TemplateCache.set, statement by statement
set_574(ms, cs, f) ==
    IF f.key \in DOMAIN cs.cache
    THEN [cs |-> cs, f |-> Goto(f, "set_575")]
    ELSE [cs |-> cs, f |-> Goto(f, "set_576")]

set_575(ms, cs, f) ==
    IF InList(cs.order, f.key)
    THEN [cs |-> [cs EXCEPT !.order = ListRemove(@, f.key)], f |-> Goto(f, "set_581")]
    ELSE [cs |-> cs, f |-> Raise(f, "ValueError")]

set_576(ms, cs, f) ==
    IF Cardinality(DOMAIN cs.cache) >= ms
    THEN [cs |-> cs, f |-> Goto(f, "set_578")]
    ELSE [cs |-> cs, f |-> Goto(f, "set_581")]

\* set evicting the newest entry: pop() in place of pop(0)
set_578_pop_last(ms, cs, f) ==
    IF cs.order # <<>>
    THEN [cs |-> [cs EXCEPT !.order = SubSeq(@, 1, Len(@) - 1)],
          f  |-> [f EXCEPT !.pc = "set_579", !.oldest = cs.order[Len(cs.order)]]]
    ELSE [cs |-> cs, f |-> Raise(f, "IndexError")]

set_578(ms, cs, f) ==
    IF cs.order # <<>>
    THEN [cs |-> [cs EXCEPT !.order = Tail(@)],
          f  |-> [f EXCEPT !.pc = "set_579", !.oldest = Head(cs.order)]]
    ELSE [cs |-> cs, f |-> Raise(f, "IndexError")]

set_579(ms, cs, f) ==
    IF f.oldest \in DOMAIN cs.cache
    THEN [cs |-> [cs EXCEPT !.cache = DictDel(@, f.oldest)], f |-> Goto(f, "set_581")]
    ELSE [cs |-> cs, f |-> Raise(f, "KeyError")]

set_581(ms, cs, f) ==
    [cs |-> [cs EXCEPT !.cache = DictSet(@, f.key, f.template)], f |-> Goto(f, "set_582")]

set_582(ms, cs, f) ==
    [cs |-> [cs EXCEPT !.order = Append(@, f.key)], f |-> Return(f, None)]

\* TemplateCache.clear, statement by statement
clear_586(ms, cs, f) ==
    [cs |-> [cs EXCEPT !.cache = EmptyDict], f |-> Goto(f, "clear_587")]

clear_587(ms, cs, f) ==
    [cs |-> [cs EXCEPT !.order = <<>>], f |-> Return(f, None)]

\* one statement of the call in frame f, on the cache cs of capacity ms
CacheStep(ms, cs, f) ==
    CASE f.pc = "get_565"   -> get_565(ms, cs, f)
      [] f.pc = "get_567"   -> get_567(ms, cs, f)
      [] f.pc = "get_568"   -> get_568(ms, cs, f)
      [] f.pc = "get_569"   -> get_569(ms, cs, f)
      [] f.pc = "set_574"   -> set_574(ms, cs, f)
      [] f.pc = "set_575"   -> set_575(ms, cs, f)
      [] f.pc = "set_576"   -> set_576(ms, cs, f)
      [] f.pc = "set_578"   -> set_578(ms, cs, f)
      [] f.pc = "set_579"   -> set_579(ms, cs, f)
      [] f.pc = "set_581"   -> set_581(ms, cs, f)
      [] f.pc = "set_582"   -> set_582(ms, cs, f)
      [] f.pc = "clear_586" -> clear_586(ms, cs, f)
      [] f.pc = "clear_587" -> clear_587(ms, cs, f)

\* a whole call, run without interruption to its return or its exception
RECURSIVE RunCall(_, _, _)
RunCall(ms, cs, f) ==
    IF f.pc \in {"done", "raised"}
    THEN [cs |-> cs, f |-> f]
    ELSE LET r == CacheStep(ms, cs, f) IN RunCall(ms, r.cs, r.f)

cache_get(ms, cs, key) == RunCall(ms, cs, NewFrame("get_565", key, None))

cache_set(ms, cs, key, template) == RunCall(ms, cs, NewFrame("set_574", key, template))

cache_clear(ms, cs) == RunCall(ms, cs, NewFrame("clear_586", "", None))

(***************************************************************************)
(* The cache used by one caller: every action is one whole call.           *)
(***************************************************************************)
CacheKeys == {"k1", "k2", "k3", "k4"}

Objects == {1, 2}

Threads == {1, 2}

CS == [cache |-> _cache, order |-> _access_order]

NoCall == [op |-> "", key |-> "", exc |-> ""]

NotPromoted == [key |-> "", rest |-> {}]

CacheIdle ==
    /\ max_size = 0
    /\ _cache = EmptyDict
    /\ _access_order = <<>>

ApiIdle ==
    /\ call = NoCall
    /\ ret = None
    /\ stamp = [k \in CacheKeys |-> 0]
    /\ clock = 0
    /\ promoted = NotPromoted

ThreadsIdle == frame = [t \in Threads |-> IdleFrame]

LexIdle ==
    /\ source = <<>>
    /\ pos = 0
    /\ line = 1
    /\ column = 1
    /\ tokens = <<>>
    /\ lexpc = "idle"

\* no source is put together in a given way
NoMeta ==
    [kind |-> "", base |-> <<>>, chain |-> <<>>, sep |-> <<>>, a |-> <<>>, b |-> <<>>, n |-> 0]

\* no call has been made on a Template
NoRender ==
    [op |-> "", name |-> <<>>, source |-> <<>>, context |-> <<>>, result |-> "",
     html |-> <<>>, compile |-> "", ran |-> 0, compiled |-> None, hit |-> FALSE,
     cached |-> None, parent |-> None]

CompilersIdle ==
    /\ compilers = <<>>
    /\ compilations = <<>>

\* TemplateEnvironment.__init__, line 404: self.filters = {}
EnvIdle == env_filters = <<>>

\* PyxmParser.__init__: nothing has been parsed
ParserIdle == parser_ast = [result |-> "", root |-> Node("ROOT"), python_blocks |-> <<>>]

TemplatesIdle ==
    /\ CompilersIdle
    /\ EnvIdle
    /\ ParserIdle
    /\ inputs = {}
    /\ meta = NoMeta
    /\ templates = <<>>
    /\ objects = <<>>
    /\ tcall = NoRender

\* TemplateCache.__init__
CacheInit ==
    /\ max_size \in 0..MaxCapacity
    /\ _cache = EmptyDict
    /\ _access_order = <<>>
    /\ ApiIdle
    /\ ThreadsIdle
    /\ LexIdle
    /\ TemplatesIdle

\* the observer after a call: the keys of `rest` still cached
StillCached(p, cache) == [p EXCEPT !.rest = @ \cap DOMAIN cache]

Get(key) ==
    /\ clock < MaxCalls
    /\ LET r == cache_get(max_size, CS, key)
           hit == r.f.pc = "done" /\ r.f.ret # None
       IN  /\ _cache' = r.cs.cache
           /\ _access_order' = r.cs.order
           /\ call' = [op |-> "get", key |-> key, exc |-> r.f.exc]
           /\ ret' = r.f.ret
           /\ stamp' = IF hit THEN [stamp EXCEPT ![key] = clock + 1] ELSE stamp
           /\ promoted' = IF hit THEN [key |-> key, rest |-> DOMAIN _cache \ {key}]
                          ELSE promoted
    /\ clock' = clock + 1
    /\ UNCHANGED <<max_size, lexvars, frame, tplvars, compvars, envvars, parservars>>

Set(key, template) ==
    /\ clock < MaxCalls
    /\ LET r == cache_set(max_size, CS, key, template)
           new == key \notin DOMAIN _cache
       IN  /\ _cache' = r.cs.cache
           /\ _access_order' = r.cs.order
           /\ call' = [op |-> "set", key |-> key, exc |-> r.f.exc]
           /\ ret' = r.f.ret
           /\ stamp' = IF r.f.pc = "done" THEN [stamp EXCEPT ![key] = clock + 1] ELSE stamp
           /\ promoted' = IF new /\ r.f.pc = "done"
                          THEN StillCached(promoted, r.cs.cache)
                          ELSE NotPromoted
    /\ clock' = clock + 1
    /\ UNCHANGED <<max_size, lexvars, frame, tplvars, compvars, envvars, parservars>>

Clear ==
    /\ clock < MaxCalls
    /\ LET r == cache_clear(max_size, CS)
       IN  /\ _cache' = r.cs.cache
           /\ _access_order' = r.cs.order
           /\ call' = [op |-> "clear", key |-> "", exc |-> r.f.exc]
           /\ ret' = r.f.ret
    /\ stamp' = [k \in CacheKeys |-> 0]
    /\ promoted' = NotPromoted
    /\ clock' = clock + 1
    /\ UNCHANGED <<max_size, lexvars, frame, tplvars, compvars, envvars, parservars>>

CacheGet == \E key \in CacheKeys : Get(key)

CacheSet == \E key \in CacheKeys, template \in Objects : Set(key, template)

CacheClear == Clear

CacheNext ==
    \/ CacheGet
    \/ CacheSet
    \/ CacheClear

SpecCache == CacheInit /\ [][CacheNext]_vars

(***************************************************************************)
(* The cache shared by several threads (get_template_cache returns the one *)
(* module-level TemplateCache; the class takes no lock).  A thread         *)
(* executes one statement of its call at a time; the statements of the     *)
(* threads interleave.                                                     *)
(***************************************************************************)
ThreadKeys == {"k1", "k2"}

ThreadsInit ==
    /\ max_size \in 1..MaxCapacity
    /\ _cache = EmptyDict
    /\ _access_order = <<>>
    /\ ThreadsIdle
    /\ ApiIdle
    /\ LexIdle
    /\ TemplatesIdle

ThreadCallGet(t) ==
    /\ frame[t].pc = "idle"
    /\ Len(_access_order) < MaxOrderLen
    /\ \E key \in ThreadKeys : frame' = [frame EXCEPT ![t] = NewFrame("get_565", key, None)]
    /\ UNCHANGED <<cachevars, apivars, lexvars, tplvars, compvars, envvars, parservars>>

ThreadCallSet(t) ==
    /\ frame[t].pc = "idle"
    /\ Len(_access_order) < MaxOrderLen
    /\ \E key \in ThreadKeys :
           frame' = [frame EXCEPT ![t] = NewFrame("set_574", key, 1)]
    /\ UNCHANGED <<cachevars, apivars, lexvars, tplvars, compvars, envvars, parservars>>

\* thread t executes the next statement of its call; a call that returns leaves the
\* thread idle, a call that raises leaves it in "raised"
ThreadStep(t) ==
    /\ frame[t].pc \notin {"idle", "raised"}
    /\ LET r == CacheStep(max_size, CS, frame[t])
       IN  /\ _cache' = r.cs.cache
           /\ _access_order' = r.cs.order
           /\ frame' = [frame EXCEPT ![t] = IF r.f.pc = "done" THEN IdleFrame ELSE r.f]
    /\ UNCHANGED <<max_size, apivars, lexvars, tplvars, compvars, envvars, parservars>>

CallGet == \E t \in Threads : ThreadCallGet(t)
CallSet == \E t \in Threads : ThreadCallSet(t)
Get565 == \E t \in Threads : frame[t].pc = "get_565" /\ ThreadStep(t)
Get567 == \E t \in Threads : frame[t].pc = "get_567" /\ ThreadStep(t)
Get568 == \E t \in Threads : frame[t].pc = "get_568" /\ ThreadStep(t)
Get569 == \E t \in Threads : frame[t].pc = "get_569" /\ ThreadStep(t)
Set574 == \E t \in Threads : frame[t].pc = "set_574" /\ ThreadStep(t)
Set575 == \E t \in Threads : frame[t].pc = "set_575" /\ ThreadStep(t)
Set576 == \E t \in Threads : frame[t].pc = "set_576" /\ ThreadStep(t)
Set578 == \E t \in Threads : frame[t].pc = "set_578" /\ ThreadStep(t)
Set579 == \E t \in Threads : frame[t].pc = "set_579" /\ ThreadStep(t)
Set581 == \E t \in Threads : frame[t].pc = "set_581" /\ ThreadStep(t)
Set582 == \E t \in Threads : frame[t].pc = "set_582" /\ ThreadStep(t)

ThreadsNext ==
    \/ CallGet
    \/ CallSet
    \/ Get565
    \/ Get567
    \/ Get568
    \/ Get569
    \/ Set574
    \/ Set575
    \/ Set576
    \/ Set578
    \/ Set579
    \/ Set581
    \/ Set582

SpecThreads == ThreadsInit /\ [][ThreadsNext]_vars

(***************************************************************************)
(* The lexer as a state machine: one action per call of _next_token made   *)
(* by the loop of PyxmLexer.tokenize, one per branch, and the final EOF.   *)
(***************************************************************************)
LexAlphabet == {"a", " ", "<", ">", "/", "{", "}", "%", "#"}

LexSamples ==
    { <<"<", "d", "i", "v", ">">>,
      <<"<", "/", "d", "i", "v", ">">>,
      <<"<", "p", "y", ">", "x", "<", "/", "p", "y", ">">>,
      <<"<", "p", "y", ">", "x">>,
      <<"a", "\n", "{", "{", " ", "x", " ", "}", "}", "b">>,
      <<"{", "{", "a", "{", "{", "b", "}", "}", "c", "}", "}">>,
      <<"{", "%", " ", "i", "f", " ", "x", " ", "%", "}", "A">>,
      <<"{", "#", "c", "#", "}", "t">> }

\* one expression or statement region each, with a nested construct that
\* holds the characters of the region's closing delimiter: a nested {{ }}
\* pair, a dictionary display in a dictionary display, and an expression
\* with a string in a statement
NestedSamples ==
    { <<"{","{"," ","a","{","{","b","}","}","c"," ","}","}">>,
      <<"{","{"," ","{","\"","a","\"",":"," ","{","\"","b","\"",":"," ","1","}","}"," ","}","}">>,
      <<"{","%"," ","i","f"," ","{","{"," ","\"","%","}","\""," ","}","}"," ","%","}">> }

LexSources == Texts(LexAlphabet, MaxSrcLen) \cup LexSamples \cup NestedSamples

Cursor == [pos |-> pos, line |-> line, column |-> column, tokens |-> tokens]

LexInit ==
    /\ source \in LexSources
    /\ pos = 0
    /\ line = 1
    /\ column = 1
    /\ tokens = <<>>
    /\ lexpc = "tokenize"
    /\ CacheIdle
    /\ ApiIdle
    /\ ThreadsIdle
    /\ TemplatesIdle

\* the lexer's mutable part after a call of _next_token
SetCursor(c) ==
    /\ pos' = c.pos
    /\ line' = c.line
    /\ column' = c.column
    /\ tokens' = c.tokens

LexStep ==
    /\ lexpc = "tokenize"
    /\ pos < Len(source)
    /\ Len(tokens) < MaxTokens
    /\ SetCursor(PyxmLexer("next_token", <<source, Cursor>>))
    /\ UNCHANGED <<source, lexpc>>
    /\ UNCHANGED <<cachevars, apivars, frame, tplvars, compvars, envvars, parservars>>

LexExpression == PyxmLexer("NextTokenBranch", <<source, pos>>) = "expr" /\ LexStep
LexStatement == PyxmLexer("NextTokenBranch", <<source, pos>>) = "stmt" /\ LexStep
LexComment == PyxmLexer("NextTokenBranch", <<source, pos>>) = "comment" /\ LexStep
LexPythonBlock == PyxmLexer("NextTokenBranch", <<source, pos>>) = "py" /\ LexStep
LexTagEnd == PyxmLexer("NextTokenBranch", <<source, pos>>) = "tag_end" /\ LexStep
LexTagOpen == PyxmLexer("NextTokenBranch", <<source, pos>>) = "tag" /\ LexStep
LexText == PyxmLexer("NextTokenBranch", <<source, pos>>) = "text" /\ LexStep

\* PyxmLexer.tokenize, after its loop
LexEOF ==
    /\ lexpc = "tokenize"
    /\ pos >= Len(source)
    /\ tokens' = Append(tokens, Token("EOF", <<>>, line, column))
    /\ lexpc' = "returned"
    /\ UNCHANGED <<source, pos, line, column>>
    /\ UNCHANGED <<cachevars, apivars, frame, tplvars, compvars, envvars, parservars>>

LexNext ==
    \/ LexExpression
    \/ LexStatement
    \/ LexComment
    \/ LexPythonBlock
    \/ LexTagEnd
    \/ LexTagOpen
    \/ LexText
    \/ LexEOF

SpecLexer == LexInit /\ [][LexNext]_vars

(***************************************************************************)
(* Template (template.py).  A Template object is [source, name, _ast,      *)
(* _compiled]; _compiled is None or the identity of a CompiledTemplate,    *)
(* its index in the list of the objects created so far.  The templates of  *)
(* the model have no parent, no registered components and no blocks, so    *)
(* lines 228-233 and 239-244 of Template.render do nothing.  A call's      *)
(* outcome is [result, compile, t, cs, objs, ran, html]: the result ("ok"  *)
(* or the exception raised), what Template._compile did ("" when it was    *)
(* not called, "hit", "ok" or the exception), the Template object, the     *)
(* cache, the objects, the number of runs of the parser and compiler, and  *)
(* the rendered text.                                                      *)
(***************************************************************************)
Ascii32 ==
    <<" ", "!", "\"", "#", "$", "%", "&", "'", "(", ")", "*", "+", ",", "-", ".", "/",
      "0", "1", "2", "3", "4", "5", "6", "7", "8", "9", ":", ";", "<", "=", ">", "?",
      "@", "A", "B", "C", "D", "E", "F", "G", "H", "I", "J", "K", "L", "M", "N", "O",
      "P", "Q", "R", "S", "T", "U", "V", "W", "X", "Y", "Z", "[", "\\", "]", "^", "_">>

Ascii97 == LowerSeq \o <<"{", "|", "}", "~">>

HexDigits == DigitSeq \o <<"a", "b", "c", "d", "e", "f">>

\* ord(c) for the characters of the sources of the model
Ord(c) ==
    IF \E i \in 1..Len(Ascii32) : Ascii32[i] = c
    THEN 31 + (CHOOSE i \in 1..Len(Ascii32) : Ascii32[i] = c)
    ELSE IF \E i \in 1..Len(Ascii97) : Ascii97[i] = c
    THEN 96 + (CHOOSE i \in 1..Len(Ascii97) : Ascii97[i] = c)
    ELSE IF c = "\n" THEN 10
    ELSE IF c = "\t" THEN 9
    ELSE 0

\* the sum of i * ord(text[i-1]) for i in a..b
RECURSIVE WeightedSum(_, _, _)
WeightedSum(text, a, b) ==
    IF a > b THEN 0
    ELSE IF a = b THEN a * Ord(text[a])
    ELSE WeightedSum(text, a, (a + b) \div 2) + WeightedSum(text, ((a + b) \div 2) + 1, b)

\* four hexadecimal digits
Hex4(n) ==
    <<HexDigits[((n \div 4096) % 16) + 1], HexDigits[((n \div 256) % 16) + 1],
      HexDigits[((n \div 16) % 16) + 1], HexDigits[(n % 16) + 1]>>

\* hashlib.md5(text.encode()).hexdigest().  The digest is modelled by a 16-bit
\* position-weighted checksum written in hexadecimal: like the digest it is a
\* function of the text alone that is not the text, and it tells apart the
\* sources of the model.
md5(text) == Hex4((WeightedSum(text, 1, Len(text)) + 31 * Len(text) + 7) % 65536)

\* Template.__init__, lines 96-102
Template(src, name) ==
    [source |-> src, name |-> name, _ast |-> "None", _compiled |-> None, _parent |-> None]

\* Template._get_cache_key with the content hash left out of the key
get_cache_key_name_only(t) == t.name

\* Template._get_cache_key
get_cache_key(t) == t.name \o <<":">> \o md5(t.source)

Outcome(result, compile, t, cs, objs, ran, html) ==
    [result |-> result, compile |-> compile, t |-> t, cs |-> cs, objs |-> objs, ran |-> ran,
     html |-> html]

\* the CompiledTemplate that PyxmCompiler.compile returns
CompiledTemplate(name, code, render_func) ==
    [name |-> name, render_code |-> code, render_func |-> render_func]

\* PyxmCompiler.compile after _compile_render_function: [err, compiled]
compile_return(code, name, f) ==
    [err |-> f.err, compiled |-> CompiledTemplate(name, code, f.body)]

\* PyxmCompiler._compile_render_function
compile_render_function(code) == Python("PyCompile", <<code>>)

\* PyxmCompiler.compile after get_code
compile_code(code, name) == compile_return(code, name, compile_render_function(code))

\* PyxmCompiler.compile
compile(ast, name) == compile_code(PyxmCompiler("render_code", <<ast>>), name)

\* NodeType.name
TypeName(type) ==
    CASE type = "ROOT" -> <<"R","O","O","T">>
      [] type = "ELEMENT" -> <<"E","L","E","M","E","N","T">>
      [] type = "TEXT" -> <<"T","E","X","T">>
      [] type = "EXPRESSION" -> <<"E","X","P","R","E","S","S","I","O","N">>
      [] type = "IF" -> <<"I","F">>
      [] type = "ELIF" -> <<"E","L","I","F">>
      [] type = "ELSE" -> <<"E","L","S","E">>
      [] type = "FOR" -> <<"F","O","R">>
      [] type = "COMPONENT" -> <<"C","O","M","P","O","N","E","N","T">>
      [] type = "SLOT" -> <<"S","L","O","T">>
      [] type = "BLOCK" -> <<"B","L","O","C","K">>
      [] type = "PYTHON" -> <<"P","Y","T","H","O","N">>
      [] type = "COMMENT" -> <<"C","O","M","M","E","N","T">>
      [] type = "RAW" -> <<"R","A","W">>

\* repr of an Optional[str]
ReprOptional(o) == IF o = <<>> THEN <<"N","o","n","e">> ELSE repr(o[1])

\* repr of node.attributes, whose values are True or a str
ReprAttributes(d) ==
    <<"{">> \o Join([i \in 1..Len(d) |->
                repr(d[i][1]) \o <<":"," ">> \o
                (IF d[i][2] = <<>> THEN <<"T","r","u","e">> ELSE repr(d[i][2][1]))], <<","," ">>)
    \o <<"}">>

\* repr of a Dict[str, str]
ReprDict(d) ==
    <<"{">> \o Join([i \in 1..Len(d) |-> repr(d[i][1]) \o <<":"," ">> \o repr(d[i][2])], <<","," ">>)
    \o <<"}">>

\* str(node.to_dict()), pyxm_parser.py:187-199
RECURSIVE to_dict(_)
to_dict(node) ==
    <<"{","'","t","y","p","e","'",":"," ">> \o repr(TypeName(node.type))
    \o <<",", " ", "'","t","a","g","'",":"," ">> \o ReprOptional(node.tag)
    \o <<",", " ", "'","a","t","t","r","i","b","u","t","e","s","'",":"," ">> \o ReprAttributes(node.attributes)
    \o <<",", " ", "'","b","i","n","d","i","n","g","s","'",":"," ">> \o ReprDict(node.bindings)
    \o <<",", " ", "'","e","v","e","n","t","s","'",":"," ">> \o ReprDict(node.events)
    \o <<",", " ", "'","c","o","n","t","e","n","t","'",":"," ">> \o ReprOptional(node.content)
    \o <<",", " ", "'","c","o","n","d","i","t","i","o","n","'",":"," ">> \o ReprOptional(node.condition)
    \o <<",", " ", "'","i","t","e","r","a","t","o","r","'",":"," ">> \o ReprOptional(node.iterator)
    \o <<",", " ", "'","c","h","i","l","d","r","e","n","'",":"," ","[">>
    \o Join([i \in 1..Len(node.children) |-> to_dict(node.children[i])], <<","," ">>)
    \o <<"]","}">>

\* d.update(e) on insertion-ordered dictionaries
RECURSIVE DictUpdate(_, _)
DictUpdate(d, e) ==
    IF e = <<>> THEN d ELSE DictUpdate(PairsPut(d, Head(e)[1], Head(e)[2]), Tail(e))

\* collect(n) in PyxmCompiler._collect_bindings and _collect_events, for the
\* field of that name: the node's own entries, then its children's in order
RECURSIVE Collect(_, _, _)
RECURSIVE CollectChildren(_, _, _)
Collect(field, n, acc) == CollectChildren(field, n.children, DictUpdate(acc, n[field]))

CollectChildren(field, children, acc) ==
    IF children = <<>> THEN acc
    ELSE CollectChildren(field, Tail(children), Collect(field, Head(children), acc))

\* PyxmCompiler._collect_bindings
collect_bindings(node) == Collect("bindings", node, <<>>)

\* PyxmCompiler._collect_events
collect_events(node) == Collect("events", node, <<>>)

\* PyxmCompiler.__init__, line 143
NewPyxmCompiler == [context |-> <<>>]

\* PyxmCompiler.compile, lines 188-189
source_hash(ast) == Slice(md5(to_dict(ast.root)), 0, 12)

\* what a compilation hands to its caller: the exception, or the
\* CompiledTemplate's source_hash, bindings and events
Compilation(err, hash, bindings, events) ==
    [err |-> err, source_hash |-> hash, bindings |-> bindings, events |-> events]

\* PyxmCompiler.compile after _compile_render_function, given its outcome c
compile_metadata(ast, c) ==
    IF c.err # "" THEN Compilation(c.err, <<>>, <<>>, <<>>)
    ELSE Compilation("ok", source_hash(ast), collect_bindings(ast.root), collect_events(ast.root))

\* PyxmCompiler.compile in which the source hash also covers the code that
\* the instance's context holds from the compilation before
PyxmCompiler_compile_hash_of_context(self, ast, name) ==
    LET before == IF self.context = <<>> THEN <<>> ELSE get_code(self.context[1])
    IN  CHOOSE r \in
            { [self |-> [self EXCEPT !.context = <<cx>>],
               result |-> IF m.err # "ok" THEN m
                          ELSE [m EXCEPT !.source_hash = Slice(md5(to_dict(ast.root) \o before), 0, 12)]] :
                cx \in {PyxmCompiler("compile_context", <<ast>>)},
                m \in {compile_metadata(ast, compile_code(render_code(ast), name))} } : TRUE

\* PyxmCompiler.compile on the instance self: the instance afterwards, and
\* what the caller gets
PyxmCompiler_compile(self, ast, name) ==
    CHOOSE r \in
        { [self |-> [self EXCEPT !.context = <<cx>>],
           result |-> compile_metadata(ast, compile_code(get_code(cx), name))] :
            cx \in {PyxmCompiler("compile_context", <<ast>>)} } : TRUE

\* Template._compile, line 165, given the result s of cache.set
compile_cached(t, objs, s) == Outcome("ok", "ok", t, s.cs, objs, 1, <<>>)

\* Template._compile with cache.set in a finally clause: it also runs when
\* compiler.compile has raised, and stores the template's _compiled, still None
compile_compiled_set_finally(t, ms, cs, objs, cache_key, c) ==
    IF c.err = "unsupported" THEN Outcome("unsupported", "unsupported", t, cs, objs, 1, <<>>)
    ELSE IF c.err # ""
    THEN Outcome("TemplateSyntaxError", "TemplateSyntaxError", t,
                 cache_set(ms, cs, cache_key, None).cs, objs, 1, <<>>)
    ELSE compile_cached([t EXCEPT !._compiled = Len(objs) + 1], Append(objs, c.compiled),
                        cache_set(ms, cs, cache_key, Len(objs) + 1))

\* Template._compile, lines 157-165, given the result c of compiler.compile
compile_compiled(t, ms, cs, objs, cache_key, c) ==
    IF c.err = "unsupported" THEN Outcome("unsupported", "unsupported", t, cs, objs, 1, <<>>)
    ELSE IF c.err # ""
    THEN Outcome("TemplateSyntaxError", "TemplateSyntaxError", t, cs, objs, 1, <<>>)
    ELSE compile_cached([t EXCEPT !._compiled = Len(objs) + 1], Append(objs, c.compiled),
                        cache_set(ms, cs, cache_key, Len(objs) + 1))

\* Template._compile, lines 150-165, given the result ast of parser.parse
compile_parsed(t, ms, cs, objs, cache_key, ast) ==
    IF ast.result = "diverges" THEN Outcome("diverges", "diverges", t, cs, objs, 1, <<>>)
    ELSE IF ast.result # "ok"
    THEN Outcome("TemplateSyntaxError", "TemplateSyntaxError", t, cs, objs, 1, <<>>)
    ELSE compile_compiled([t EXCEPT !._ast = "PyxmAST"], ms, cs, objs, cache_key,
                          compile(ast, t.name))

\* Template._compile, lines 145-165, given the result g of cache.get
compile_got(t, ms, objs, cache_key, g) ==
    IF g.f.ret # None
    THEN Outcome("ok", "hit", [t EXCEPT !._compiled = g.f.ret], g.cs, objs, 0, <<>>)
    ELSE compile_parsed(t, ms, g.cs, objs, cache_key, parse(t.source))

\* Template._compile
Template_compile(t, ms, cs, objs) ==
    compile_got(t, ms, objs, get_cache_key(t), cache_get(ms, cs, get_cache_key(t)))

\* Template.__init__
Template_init(src, name, auto_compile, ms, cs, objs) ==
    IF auto_compile THEN Template_compile(Template(src, name), ms, cs, objs)
    ELSE Outcome("ok", "", Template(src, name), cs, objs, 0, <<>>)

\* Template.render, lines 235-249, given the outcome r of the call of the
\* render function: every exception is raised as TemplateRenderError
render_returned(c, r) ==
    [c EXCEPT !.result = CASE r.status = "ok" -> "ok"
                           [] r.status = "unsupported" -> "unsupported"
                           [] OTHER -> "TemplateRenderError",
              !.html = r.html]

\* CompiledTemplate.render
CompiledTemplate_render(compiled, context) ==
    Python("PyCall", <<compiled.render_func, context>>)

\* Template.render, lines 225-249, given the outcome c of lines 222-223
render_compiled(c, context) ==
    IF c.result # "ok" THEN c
    ELSE render_returned(c, CompiledTemplate_render(c.objs[c.t._compiled], context))

\* Template.render
Template_render(t, context, ms, cs, objs) ==
    render_compiled(IF t._compiled = None THEN Template_compile(t, ms, cs, objs)
                    ELSE Outcome("ok", "", t, cs, objs, 0, <<>>),
                    context)

\* the characters of the model that \w matches
WordChars == Alpha \cup Digit \cup {"_"}

\* Template._extract_blocks: the matches of the pattern
\* <div data-nexa-block="(\w+)">(.*?)</div> in html from index p on, from left
\* to right, a later match of a name replacing the earlier one
RECURSIVE extract_blocks(_, _, _)
extract_blocks(html, p, blocks) ==
    LET name == p + Len(<<"<","d","i","v"," ","d","a","t","a","-","n","e","x","a","-","b","l","o","c","k","=","\"">>)
        e == SpanEnd(html, name, WordChars)
        ends == {r \in (e + 2)..Len(html) : MatchAt(html, r, <<"<","/","d","i","v",">">>)}
        end == CHOOSE r \in ends : \A r2 \in ends : r <= r2
    IN  IF p >= Len(html) THEN blocks
        ELSE IF /\ MatchAt(html, p, <<"<","d","i","v"," ","d","a","t","a","-","n","e","x","a","-","b","l","o","c","k","=","\"">>)
                /\ e > name
                /\ MatchAt(html, e, <<"\"", ">">>)
                /\ ends # {}
        THEN extract_blocks(html, end + Len(<<"<","/","d","i","v",">">>),
                            PairsPut(blocks, Slice(html, name, e), PyStr(Slice(html, e + 2, end))))
        ELSE extract_blocks(html, p + 1, blocks)

\* Template.render, line 243: the context that the parent is rendered with
parent_context(context, html) ==
    PairsPut(context, <<"_","b","l","o","c","k","s">>, PyDict(extract_blocks(html, 0, <<>>)))

\* Template.extends with a Template instance: the parent is kept as its index
\* in the templates of the program
extends(t, parent) == [t EXCEPT !._parent = parent]

\* Template.render, lines 244-249, given the outcome own of the template's
\* own rendering and the outcome up of the parent's render, [out, ts]: html
\* is the parent's, and every exception of the parent is raised as
\* TemplateRenderError
render_inherited(own, up) ==
    [out |-> [own EXCEPT !.result = IF up.out.result \in {"ok", "unsupported", "diverges"}
                                    THEN up.out.result ELSE "TemplateRenderError",
                         !.html = IF up.out.result = "ok" THEN up.out.html ELSE <<>>,
                         !.cs = up.out.cs,
                         !.objs = up.out.objs,
                         !.ran = own.ran + up.out.ran],
     ts |-> up.ts]

RECURSIVE Template_render_in(_, _, _, _, _, _, _)

\* Template.render, lines 239-249, for the i-th of the templates ts, given the
\* outcome own of lines 222-236: [out, ts].  A chain of parents that is longer
\* than the templates are many returns to a template; the calls then nest
\* until RecursionError is raised, which is raised as TemplateRenderError.
render_own(ts, i, context, ms, depth, own) ==
    IF own.result # "ok" \/ ts[i]._parent = None
    THEN [out |-> own, ts |-> [ts EXCEPT ![i] = own.t]]
    ELSE IF depth >= Len(ts)
    THEN [out |-> [own EXCEPT !.result = "TemplateRenderError", !.html = <<>>],
          ts |-> [ts EXCEPT ![i] = own.t]]
    ELSE render_inherited(own,
             Template_render_in([ts EXCEPT ![i] = own.t], ts[i]._parent,
                                parent_context(context, own.html), ms, own.cs, own.objs,
                                depth + 1))

\* Template.render for the i-th of the templates ts, whose parents are among
\* them
Template_render_in(ts, i, context, ms, cs, objs, depth) ==
    render_own(ts, i, context, ms, depth, Template_render(ts[i], context, ms, cs, objs))

\* render(source, context), line 522, given the outcome c of Template(source)
\* and the outcome r of template.render(context)
render_rendered(c, r) == [r EXCEPT !.compile = c.compile, !.ran = c.ran + r.ran]

\* render(source, context), given the outcome c of Template(source)
render_constructed(c, context, ms) ==
    IF c.result # "ok" THEN c
    ELSE render_rendered(c, Template_render(c.t, context, ms, c.cs, c.objs))

\* render(source, context) of template.py
render(src, context, ms, cs, objs) ==
    render_constructed(Template_init(src, <<"t","e","m","p","l","a","t","e">>, TRUE, ms, cs, objs), context, ms)

(***************************************************************************)
(* The templates of a program: it constructs Template objects from its     *)
(* sources and renders them, or renders a source with render(source,       *)
(* context).  All of them share the module-level TemplateCache of          *)
(* get_template_cache, which has the default capacity.                     *)
(***************************************************************************)
\* the key that a template of this name and source is cached under
CacheKey(name, src) == name \o <<":">> \o md5(src)

\* what the caller sees of a call, and what the cache held for the
\* template's name and source before the call
Observed(op, name, src, context, c) ==
    [op |-> op, name |-> name, source |-> src, context |-> context,
     result |-> c.result, html |-> c.html, compile |-> c.compile, ran |-> c.ran,
     compiled |-> c.t._compiled,
     hit |-> CacheKey(name, src) \in DOMAIN _cache,
     cached |-> IF CacheKey(name, src) \in DOMAIN _cache THEN _cache[CacheKey(name, src)]
                ELSE None,
     parent |-> c.t._parent]

\* the state after a call with outcome c
Returned(op, name, src, context, c) ==
    /\ _cache' = c.cs.cache
    /\ _access_order' = c.cs.order
    /\ objects' = c.objs
    /\ tcall' = Observed(op, name, src, context, c)

\* Template(source, name, auto_compile) returned or raised
Constructed(inp, c) ==
    /\ templates' = IF c.result = "ok" THEN Append(templates, c.t) ELSE templates
    /\ Returned("Template", inp.name, inp.source, <<>>, c)

\* templates[i].render(context) returned or raised, r being the outcome and
\* the templates after it
Rendered(i, context, r) ==
    /\ templates' = r.ts
    /\ Returned("Template.render", templates[i].name, templates[i].source, context, r.out)

NewTemplate(inp, auto_compile) ==
    /\ tcall.result # "diverges"
    /\ Len(templates) < MaxTemplates
    /\ Constructed(inp, Template_init(inp.source, inp.name, auto_compile, max_size, CS, objects))
    /\ UNCHANGED <<max_size, inputs, meta, lexvars, apivars, frame, compvars, envvars, parservars>>

Render(i, context) ==
    /\ tcall.result # "diverges"
    /\ Rendered(i, context, Template_render_in(templates, i, context, max_size, CS, objects, 1))
    /\ UNCHANGED <<max_size, inputs, meta, lexvars, apivars, frame, compvars, envvars, parservars>>

\* templates[i].extends(templates[j])
Extends(i, j) ==
    /\ tcall.result # "diverges"
    /\ templates' = [templates EXCEPT ![i] = extends(@, j)]
    /\ tcall' = [NoRender EXCEPT !.op = "Template.extends", !.name = templates[i].name,
                                 !.source = templates[i].source, !.result = "ok",
                                 !.compiled = templates[i]._compiled, !.parent = j]
    /\ UNCHANGED <<max_size, _cache, _access_order, objects, inputs, meta, lexvars, apivars, frame, compvars, envvars, parservars>>

RenderSource(inp, context) ==
    /\ tcall.result # "diverges"
    /\ Returned("render", <<"t","e","m","p","l","a","t","e">>, inp.source, context,
                render(inp.source, context, max_size, CS, objects))
    /\ UNCHANGED <<max_size, inputs, meta, templates, lexvars, apivars, frame, compvars, envvars, parservars>>

\* the contexts that the templates are rendered with
TemplateContexts ==
    { <<>>,
      << <<<<"x">>, PyStr(<<"<","v",">">>)>> >> }

\* the contexts that a source is rendered with
Contexts == TemplateContexts \cup { << <<<<"x">>, PyStr(<<>>)>> >> }

TemplateNew == \E inp \in inputs, auto_compile \in BOOLEAN : NewTemplate(inp, auto_compile)

TemplateRender ==
    \E i \in 1..Len(templates), context \in TemplateContexts : Render(i, context)

RenderCall == \E inp \in inputs, context \in Contexts : RenderSource(inp, context)

TemplateExtends == \E i \in 1..Len(templates), j \in 1..Len(templates) : Extends(i, j)

\* get_template_cache(): TemplateCache() with the default max_size, and no
\* Template yet
TemplatesStart ==
    /\ max_size = DefaultMaxSize
    /\ _cache = EmptyDict
    /\ _access_order = <<>>
    /\ templates = <<>>
    /\ objects = <<>>
    /\ tcall = NoRender
    /\ ApiIdle
    /\ ThreadsIdle
    /\ LexIdle
    /\ CompilersIdle
    /\ EnvIdle
    /\ ParserIdle

(***************************************************************************)
(* Templates constructed and rendered.  The sources: two that compile, of  *)
(* which one renders with a context that has the key x and raises without  *)
(* it, one that the parser rejects and one whose generated code does not   *)
(* compile.  One source is used under two names, one name for two sources. *)
(***************************************************************************)
TemplateInputs ==
    { [name |-> <<"a">>, source |-> <<"h","i">>],
      [name |-> <<"a">>,
       source |-> <<"{","{"," ","_","c","t","x","[","\"","x","\"","]"," ","}","}">>],
      [name |-> <<"b">>,
       source |-> <<"{","{"," ","_","c","t","x","[","\"","x","\"","]"," ","}","}">>],
      [name |-> <<"a">>,
       source |-> <<"{","%"," ","f","o","r"," ","i"," ","i","n"," ","y"," ","%","}","a">>],
      [name |-> <<"a">>,
       source |-> <<"{","%"," ","i","f"," ","T","r","u","e"," ","%","}",
                    "{","%"," ","e","n","d","i","f"," ","%","}">>] }

TemplatesInit ==
    /\ inputs = TemplateInputs
    /\ meta = NoMeta
    /\ TemplatesStart

TemplatesNext ==
    \/ TemplateNew
    \/ TemplateRender

Spec == TemplatesInit /\ [][TemplatesNext]_vars

(***************************************************************************)
(* One source rendered with render(source, context).  The source is an     *)
(* expression `{{ base | f1 | ... }}` or `{% if cond %}a{% else %}b{%      *)
(* endif %}`; meta records its parts.                                      *)
(***************************************************************************)
\* a base expression: its text, what it is ("literal", "name" or "lookup") and
\* the string it denotes or the context key it names
Base(text, is, v) == [text |-> text, is |-> is, v |-> v]

Bases ==
    { Base(<<"\"","<","b",">","\"">>, "literal", <<"<","b",">">>),
      Base(<<"\"","a","&","b","\"">>, "literal", <<"a","&","b">>),
      Base(<<"\"","<","i",">","s","a","f","e","(","x",")","\"">>, "literal", <<"<","i",">","s","a","f","e","(","x",")">>),
      Base(<<"x">>, "name", <<"x">>),
      Base(<<"_","c","t","x","[","\"","x","\"","]">>, "lookup", <<"x">>) }

FilterChains ==
    { <<>>, <<<<"s","a","f","e">>>>, <<<<"u","p","p","e","r">>>>, <<<<"e">>>>, <<<<"u","p","p","e","r">>, <<"s","a","f","e">>>>, <<<<"s","a","f","e">>, <<"u","p","p","e","r">>>> }

Separators == { <<" ","|"," ">>, <<"|">> }

Conditions ==
    { Base(<<"T","r","u","e">>, "literal", <<"T","r","u","e">>),
      Base(<<"F","a","l","s","e">>, "literal", <<>>),
      Base(<<"x">>, "name", <<"x">>),
      Base(<<"_","c","t","x","[","\"","x","\"","]">>, "lookup", <<"x">>) }

Branches == { <<>>, <<"y","e","s">>, <<"n","o">> }

ExprMeta(base, chain, sep) ==
    [kind |-> "expr", base |-> base, chain |-> chain, sep |-> sep, a |-> <<>>, b |-> <<>>,
     n |-> 0]

IfMeta(cond, a, b) ==
    [kind |-> "if", base |-> cond, chain |-> <<>>, sep |-> <<>>, a |-> a, b |-> b, n |-> 0]

RenderMetas ==
    { ExprMeta(base, <<>>, <<>>) : base \in Bases }
    \cup { ExprMeta(base, chain, sep) :
               base \in Bases, chain \in FilterChains \ {<<>>}, sep \in Separators }
    \cup { IfMeta(cond, a, b) : cond \in Conditions, a \in Branches, b \in Branches }

\* the source text put together from its parts
SourceOf(m) ==
    IF m.kind = "expr"
    THEN <<"{","{"," ">> \o m.base.text
         \o Flatten([i \in 1..Len(m.chain) |-> m.sep \o m.chain[i]]) \o <<" ","}","}">>
    ELSE <<"{","%"," ","i","f"," ">> \o m.base.text \o <<" ","%","}">> \o m.a \o <<"{","%"," ","e","l","s","e"," ","%","}">> \o m.b \o <<"{","%"," ","e","n","d","i","f"," ","%","}">>

RenderInit ==
    /\ meta \in RenderMetas
    /\ inputs = {[name |-> <<"t","e","m","p","l","a","t","e">>, source |-> SourceOf(meta)]}
    /\ TemplatesStart

RenderNext == RenderCall

SpecRender == RenderInit /\ [][RenderNext]_vars

(***************************************************************************)
(* What an output expression and a condition of the rendered source denote *)
(* in a context.                                                           *)
(***************************************************************************)
\* the base is a string literal, or names a key that the context has
HasValue(base, context) ==
    base.is = "literal" \/ \E i \in 1..Len(context) : context[i][1] = base.v

\* the string of the literal, or of the context's value for the key
ValueOf(base, context) ==
    IF base.is = "literal" THEN base.v
    ELSE context[CHOOSE i \in 1..Len(context) : context[i][1] = base.v][2].s

\* the filters of the chain applied from left to right: upper, e (escape)
\* and safe (the value itself)
RECURSIVE Filtered(_, _)
Filtered(v, chain) ==
    IF chain = <<>> THEN v
    ELSE Filtered(CASE Head(chain) = <<"u","p","p","e","r">> -> ToUpper(v)
                    [] Head(chain) = <<"e">> -> html_escape(v)
                    [] OTHER -> v,
                  Tail(chain))

EndsInSafe(chain) == chain # <<>> /\ chain[Len(chain)] = <<"s","a","f","e">>

\* the rendered source is the expression of meta and render has returned html
ExpressionRendered ==
    /\ meta.kind = "expr"
    /\ tcall.op = "render"
    /\ tcall.result = "ok"

(***************************************************************************)
(* C1.  An output expression whose filter chain does not end in the safe   *)
(* filter appends the HTML-escaped string of its result to the output:     *)
(* whenever render returns for `{{ base | f1 | ... }}` with a chain that   *)
(* is empty or ends in another filter, the html is the escaped string of   *)
(* the filtered value, whatever else the expression text contains.         *)
(***************************************************************************)
EscapedUnlessSafe ==
    (ExpressionRendered /\ ~EndsInSafe(meta.chain)) =>
        tcall.html = html_escape(Filtered(ValueOf(meta.base, tcall.context), meta.chain))

(***************************************************************************)
(* C2.  An output expression whose filter chain ends in the safe filter    *)
(* appends its result verbatim: whenever render returns for                *)
(* `{{ base | ... | safe }}`, the html is the filtered value itself, not   *)
(* escaped.                                                                *)
(***************************************************************************)
SafeVerbatim ==
    (ExpressionRendered /\ EndsInSafe(meta.chain)) =>
        tcall.html = Filtered(ValueOf(meta.base, tcall.context), meta.chain)

(***************************************************************************)
(* C3.  An output expression that names a key of the context evaluates to  *)
(* the key's value: render of `{{ k }}` with a context that has the key k  *)
(* returns the escaped string of the context's value for k.                *)
(***************************************************************************)
ContextKeyRenders ==
    (/\ meta.kind = "expr"
     /\ tcall.op = "render"
     /\ meta.base.is = "name"
     /\ meta.chain = <<>>
     /\ HasValue(meta.base, tcall.context)) =>
        /\ tcall.result = "ok"
        /\ tcall.html = html_escape(ValueOf(meta.base, tcall.context))

(***************************************************************************)
(* C4.  On every finite source text a fresh PyxmLexer's tokenize           *)
(* terminates and returns a token sequence ending in its only EOF token.   *)
(* The loop of tokenize runs while pos < len(source) and _next_token is a  *)
(* function of (source, pos), so tokenize terminates exactly when every    *)
(* call of _next_token made by the loop moves pos forward.                 *)
(***************************************************************************)
TokenizeTerminates ==
    [][(lexpc = "tokenize" /\ pos < Len(source)) => pos' > pos]_vars

(***************************************************************************)
(* C5.  In a TemplateCache of capacity N >= 1 used through get and set,    *)
(* the cached keys are at every moment exactly the N most recently         *)
(* accessed keys (an access is a set or a get that hits), no call raises,  *)
(* and a get hits exactly on those keys: so a set of a new key into a full *)
(* cache evicts the key whose last access is oldest, and after N+1         *)
(* distinct insertions the first-inserted key misses while the N most      *)
(* recently accessed keys hit.                                             *)
(***************************************************************************)
Accessed == {k \in CacheKeys : stamp[k] > 0}

MostRecent(n) == {k \in Accessed : Cardinality({j \in Accessed : stamp[j] > stamp[k]}) < n}

LRUEviction ==
    max_size >= 1 =>
        /\ DOMAIN _cache = MostRecent(max_size)
        /\ call.exc = ""
        /\ call.op = "get" => (ret # None <=> call.key \in MostRecent(max_size))

\* a get misses on a key that was inserted and has been evicted since, while
\* the cache is full of more recently accessed keys
LRUEvictionWitness ==
    /\ max_size >= 1
    /\ call.op = "get"
    /\ ret = None
    /\ stamp[call.key] > 0
    /\ Cardinality(DOMAIN _cache) = max_size
    /\ \A k \in DOMAIN _cache : stamp[k] > stamp[call.key]

(***************************************************************************)
(* C6.  A get that hits leaves its key in the most-recently-used position, *)
(* and the key outlives every entry that was cached with it at that        *)
(* moment while only new keys are set afterwards; a get that misses        *)
(* changes neither the cached entries nor the access order.                *)
(***************************************************************************)
GetPromotes ==
    /\ [](/\ (call.op = "get" /\ ret # None) =>
                 (_access_order # <<>> /\ _access_order[Len(_access_order)] = call.key)
          /\ promoted.key # "" => (promoted.key \in DOMAIN _cache \/ promoted.rest = {}))
    /\ [][(clock' = clock + 1 /\ call'.op = "get" /\ ret' = None) =>
              (_cache' = _cache /\ _access_order' = _access_order)]_vars

\* a promoted key is still cached after every entry that was cached with it
\* has been evicted by sets of new keys
GetPromotesWitness ==
    /\ max_size >= 2
    /\ call.op = "set"
    /\ promoted.key \in DOMAIN _cache
    /\ promoted.rest = {}
    /\ \E j \in CacheKeys : stamp[j] > 0 /\ j \notin DOMAIN _cache

(***************************************************************************)
(* C7.  Concurrent get and set calls on the shared TemplateCache do not    *)
(* corrupt it: no call raises, and whenever no call is in progress the     *)
(* access-order list is a duplicate-free listing of exactly the cached     *)
(* keys and the number of entries is within the capacity.                  *)
(***************************************************************************)
ConcurrentCallsSafe ==
    /\ \A t \in Threads : frame[t].pc # "raised"
    /\ (\A t \in Threads : frame[t].pc = "idle") =>
           /\ Len(_access_order) = Cardinality(DOMAIN _cache)
           /\ {_access_order[i] : i \in 1..Len(_access_order)} = DOMAIN _cache
           /\ Cardinality(DOMAIN _cache) <= max_size

(***************************************************************************)
(* C8.  Compilation is memoized by the key "{name}:{content-hash}".  When  *)
(* a Template is compiled (by its constructor, or by the first render of a *)
(* template constructed without compiling) and the cache holds its key,    *)
(* the template takes the cached CompiledTemplate object itself, nothing   *)
(* is parsed or generated and no new object is made; when the cache does   *)
(* not hold the key the pipeline runs once, and if it succeeds its result  *)
(* is the new object cached under that key.  No compiled object is ever    *)
(* altered.                                                                *)
(***************************************************************************)
CompileMemoized ==
    /\ [](tcall.compile # "" =>
            /\ tcall.hit =>
                   /\ tcall.compile = "hit"
                   /\ tcall.ran = 0
                   /\ tcall.compiled = tcall.cached
            /\ ~tcall.hit =>
                   /\ tcall.compile # "hit"
                   /\ tcall.ran = 1
            /\ (~tcall.hit /\ tcall.compile = "ok") =>
                   /\ CacheKey(tcall.name, tcall.source) \in DOMAIN _cache
                   /\ _cache[CacheKey(tcall.name, tcall.source)] = tcall.compiled
                   /\ tcall.compiled = Len(objects))
    /\ [][/\ \A i \in 1..Len(objects) : i <= Len(objects') /\ objects'[i] = objects[i]
          /\ (tcall'.compile # "" /\ tcall'.hit) => objects' = objects]_vars

\* a second Template of the same name and source was constructed: it hit
\* the cache and shares the first one's compiled object
CompileMemoizedWitness ==
    /\ tcall.op = "Template"
    /\ tcall.hit
    /\ tcall.ran = 0
    /\ Len(templates) = 2
    /\ templates[1]._compiled # None
    /\ templates[2]._compiled = templates[1]._compiled
    /\ templates[2].source = templates[1].source
    /\ Len(objects) = 1

(***************************************************************************)
(* C9.  A compile that fails, in the parser or in the generation of the    *)
(* render function, leaves the cache as it was; a render that fails        *)
(* without having compiled anything leaves every cached entry and its      *)
(* compiled object as they were; and the cached entries change only in a   *)
(* call whose compile succeeded.                                           *)
(***************************************************************************)
CacheChangesOnlyOnCompile ==
    [][/\ tcall'.compile = "TemplateSyntaxError" =>
              (_cache' = _cache /\ _access_order' = _access_order)
       /\ (tcall'.result = "TemplateRenderError" /\ tcall'.compile # "ok") =>
              /\ _cache' = _cache
              /\ \A k \in DOMAIN _cache : objects'[_cache[k]] = objects[_cache[k]]
       /\ _cache' # _cache => tcall'.compile = "ok"]_vars

\* the render of a compiled and cached template has failed, and the cache
\* still holds the template's compiled object under its key
CacheChangesOnlyOnCompileWitness ==
    /\ tcall.op = "Template.render"
    /\ tcall.result = "TemplateRenderError"
    /\ tcall.compile = ""
    /\ CacheKey(tcall.name, tcall.source) \in DOMAIN _cache
    /\ _cache[CacheKey(tcall.name, tcall.source)] = tcall.compiled
    /\ Cardinality(DOMAIN _cache) = 2

(***************************************************************************)
(* C10.  render of `{% if c %}A{% else %}B{% endif %}` outputs exactly one *)
(* branch: for texts A and B and a condition c that is True or False or    *)
(* names a key of the context, render returns A (and not B) when c is true *)
(* in the context and B (and not A) when it is false, a string value being *)
(* true when it is not empty.                                              *)
(***************************************************************************)
IfRendersOneBranch ==
    (/\ meta.kind = "if"
     /\ tcall.op = "render"
     /\ meta.a # <<>>
     /\ meta.b # <<>>
     /\ HasValue(meta.base, tcall.context)) =>
        /\ tcall.result = "ok"
        /\ tcall.html = IF ValueOf(meta.base, tcall.context) # <<>> THEN meta.a ELSE meta.b

(***************************************************************************)
(* One source rendered with render(source, context), the source being a    *)
(* statement block or markup: a for loop over a list display whose body    *)
(* writes attributes of the loop, a block or a component with or without   *)
(* children, a raw block, literal text or an element, a closing tag that   *)
(* does not match, or a delimiter that is never closed.  meta records the  *)
(* parts: the attributes in chain, the children or the text in a, the name *)
(* in base, the number of items in n.                                      *)
(***************************************************************************)
MaxItems == 3

\* the list display [1, 2, ..., n]
RECURSIVE ListDisplay(_)
ListDisplay(n) ==
    IF n = 1 THEN <<"[","1","]">>
    ELSE SubSeq(ListDisplay(n - 1), 1, Len(ListDisplay(n - 1)) - 1) \o <<",">> \o NatStr(n) \o <<"]">>

LoopAttributes == { <<"i","n","d","e","x">>, <<"f","i","r","s","t">>, <<"l","a","s","t">> }

\* how the body names an attribute of the loop: as loop.attribute, or by the
\* subscript of the variable that _compile_for assigns
LoopForms == { "loop", "_loop1" }

LoopChains == { <<attr>> : attr \in LoopAttributes } \cup { << <<"f","i","r","s","t">>, <<"l","a","s","t">> >> }

LoopExpression(form, attr) ==
    IF form = "loop" THEN <<"{","{"," ","l","o","o","p",".">> \o attr \o <<" ","}","}">>
    ELSE <<"{","{"," ","_","l","o","o","p","1","[","\"">> \o attr \o <<"\"","]"," ","}","}">>

\* the expressions of the body, with - between them
RECURSIVE LoopBody(_, _)
LoopBody(form, chain) ==
    IF Len(chain) = 1 THEN LoopExpression(form, chain[1])
    ELSE LoopExpression(form, chain[1]) \o <<"-">> \o LoopBody(form, Tail(chain))

NodeMeta(kind, name, chain, form, a, n) ==
    [kind |-> kind, base |-> Base(name, "literal", name), chain |-> chain, sep |-> form,
     a |-> a, b |-> <<>>, n |-> n]

ForMetas ==
    { NodeMeta("for", ListDisplay(n), chain, form, LoopBody(form, chain), n) :
          n \in 1..MaxItems, chain \in LoopChains, form \in LoopForms }

Children == { <<>>, <<"o","w","n">> }

BlockMetas ==
    { NodeMeta("block", name, <<>>, "", a, 0) : name \in {<<"n">>, <<"m">>}, a \in Children }

ComponentMetas ==
    { NodeMeta("component", name, <<>>, "", a, 0) : name \in {<<"c">>, <<"k">>}, a \in Children }

RawTexts ==
    { <<"p","l","a","i","n">>, <<"{","{"," ","x"," ","}","}">>, <<"{","{","x","}","}">>, <<"{","%"," "," ","i","f"," ","y"," ","%","}">>, <<" ","\"","q","\""," ">> }

RawMetas == { NodeMeta("raw", <<>>, <<>>, "", a, 0) : a \in RawTexts }

StaticTexts ==
    { <<"h","e","l","l","o">>, <<"a"," ","&"," ","b">>, <<"<","p",">","h","i","<","/","p",">">>, <<"<","b","r","/",">">> }

StaticMetas == { NodeMeta("static", <<>>, <<>>, "", a, 0) : a \in StaticTexts }

\* an element opened as one tag and closed as another
MismatchMetas ==
    { NodeMeta("mismatch", open, <<close>>, "", <<"<">> \o open \o <<">","<","/">> \o close \o <<">">>, 0) :
          open \in {<<"d","i","v">>}, close \in {<<"s","p","a","n">>, <<"p">>} }

\* a delimiter that opens an expression, a statement, a comment or setup code,
\* and the rest of the source, which does not close it
UnclosedMetas ==
    { NodeMeta("unclosed", open, <<>>, "", open \o rest, 0) :
          open \in {<<"{","{">>, <<"{","%">>, <<"{","#">>},
          rest \in {<<>>, <<" ","\"","a","\"">>, <<" ","x">>} }
    \cup { NodeMeta("unclosed", <<"<","p","y",">">>, <<>>, "", <<"<","p","y",">","x"," ","="," ","1">>, 0) }

\* the most elif branches of an if chain
MaxElifs == 2

\* the condition of a branch that is taken (b) or not
BranchCondition(b) == IF b THEN <<"T","r","u","e">> ELSE <<"F","a","l","s","e">>

\* {% if c1 %}1{% elif c2 %}2 ... {% else %}E{% endif %}, the else branch
\* with the form "else" only
ChainSource(conds, form) ==
    <<"{","%"," ","i","f"," ">> \o BranchCondition(conds[1]) \o <<" ","%","}","1">>
    \o Flatten([i \in 1..(Len(conds) - 1) |->
                    <<"{","%"," ","e","l","i","f"," ">> \o BranchCondition(conds[i + 1]) \o <<" ","%","}">> \o NatStr(i + 1)])
    \o (IF form = "else" THEN <<"{","%"," ","e","l","s","e"," ","%","}","E">> ELSE <<>>)
    \o <<"{","%"," ","e","n","d","i","f"," ","%","}">>

\* if chains of up to MaxElifs elif branches, with and without an else
\* branch, every condition true or false
ChainMetas ==
    { NodeMeta("chain", <<>>, conds, form, ChainSource(conds, form), Len(conds) - 1) :
          conds \in UNION { [1..k -> BOOLEAN] : k \in 1..(MaxElifs + 1) }, form \in {"else", ""} }

\* the statements that close or continue a block
ClosingStatements ==
    { <<"e","n","d","i","f">>, <<"e","n","d","f","o","r">>, <<"e","n","d","b","l","o","c","k">>,
      <<"e","n","d","c","o","m","p","o","n","e","n","t">>, <<"e","n","d","r","a","w">>, <<"e","l","s","e">> }

\* the statements that open a block
OpeningStatements ==
    { <<"i","f"," ","T","r","u","e">>, <<"f","o","r"," ","x"," ","i","n"," ","[","1","]">>,
      <<"c","o","m","p","o","n","e","n","t"," ","c">>, <<"b","l","o","c","k"," ","n">> }

\* sources with unbalanced control blocks: a closing statement that no block
\* precedes, and a block with the text A that is open where the source ends
UnbalancedMetas ==
    { NodeMeta("unbalanced", stmt, <<>>, "close", <<"{","%"," ">> \o stmt \o <<" ","%","}">>, 0) :
          stmt \in ClosingStatements }
    \cup { NodeMeta("unbalanced", stmt, <<>>, "open", <<"{","%"," ">> \o stmt \o <<" ","%","}","A">>, 0) :
              stmt \in OpeningStatements }

\* statements whose keyword is none of if, elif, else, for, component,
\* block, slot, raw and their closing statements
UnknownStatements ==
    { <<"f","o","o">>, <<"s","e","t"," ","x"," ","="," ","1">>, <<"r","a","w","h","i","d","e">>, <<"s","l","o","t","s">> }

\* a{% STATEMENT %}{{ "x" }}
UnknownMetas ==
    { NodeMeta("unknown", stmt, <<>>, "",
               <<"a","{","%"," ">> \o stmt \o <<" ","%","}","{","{"," ","\"","x","\""," ","}","}">>, 0) :
          stmt \in UnknownStatements }

\* sources with setup code and an expression that names what the setup code
\* defines, each with the text that the expression then renders
SetupSources ==
    { \* the fragment before the expression
      <<<<"<","p","y",">","x"," ","="," ","1","<","/","p","y",">","{","{"," ","x"," ","}","}">>,
        <<"1">>>>,
      \* the fragment after the expression
      <<<<"{","{"," ","x"," ","}","}","<","p","y",">","x"," ","="," ","1","<","/","p","y",">">>,
        <<"1">>>>,
      \* two fragments, the second using a name of the first
      <<<<"<","p","y",">","x"," ","="," ","1","<","/","p","y",">","a","<","p","y",">","y"," ","="," ","x","<","/","p","y",">","{","{"," ","y"," ","}","}">>,
        <<"a","1">>>>,
      \* a fragment of two lines
      <<<<"<","p","y",">","x"," ","="," ","1","\n","y"," ","="," ","2","<","/","p","y",">","{","{"," ","y"," ","}","}">>,
        <<"2">>>>,
      \* a fragment of two lines, indented inside the tag
      <<<<"<","p","y",">","\n"," "," ","x"," ","="," ","1","\n"," "," ","y"," ","="," ","2","\n","<","/","p","y",">","{","{"," ","y"," ","}","}">>,
        <<"2">>>>,
      \* a fragment that imports a module
      <<<<"<","p","y",">","i","m","p","o","r","t"," ","m","a","t","h","<","/","p","y",">","{","{"," ","m","a","t","h"," ","i","s"," ","N","o","n","e"," ","}","}">>,
        <<"F","a","l","s","e">>>> }

SetupMetas ==
    { [NodeMeta("setup", <<>>, <<>>, "", c[1], 0) EXCEPT !.b = c[2]] : c \in SetupSources }

NodeMetas ==
    ForMetas \cup BlockMetas \cup ComponentMetas \cup RawMetas \cup StaticMetas
    \cup MismatchMetas \cup UnclosedMetas \cup ChainMetas \cup UnbalancedMetas \cup UnknownMetas
    \cup SetupMetas

\* the source text put together from its parts
NodeSourceOf(m) ==
    CASE m.kind = "for" ->
             <<"{","%"," ","f","o","r"," ","x"," ","i","n"," ">> \o m.base.text \o <<" ","%","}">> \o m.a \o <<"{","%"," ","e","n","d","f","o","r"," ","%","}">>
      [] m.kind = "block" ->
             <<"{","%"," ","b","l","o","c","k"," ">> \o m.base.text \o <<" ","%","}">> \o m.a \o <<"{","%"," ","e","n","d","b","l","o","c","k"," ","%","}">>
      [] m.kind = "component" ->
             <<"{","%"," ","c","o","m","p","o","n","e","n","t"," ">> \o m.base.text \o <<" ","%","}">> \o m.a \o <<"{","%"," ","e","n","d","c","o","m","p","o","n","e","n","t"," ","%","}">>
      [] m.kind = "raw" -> <<"{","%"," ","r","a","w"," ","%","}">> \o m.a \o <<"{","%"," ","e","n","d","r","a","w"," ","%","}">>
      [] OTHER -> m.a

\* the contexts of these renders: empty, with a key x, with an override of the
\* block n, and with the component c, a Template of the literal text C
NodeContexts ==
    { <<>>,
      << <<<<"x">>, PyStr(<<"<","v",">">>)>> >>,
      << <<<<"_","b","l","o","c","k","s">>, PyDict(<< <<<<"n">>, PyStr(<<"o","v","e","r">>)>> >>)>> >>,
      << <<<<"_","c","o","m","p","o","n","e","n","t","s">>, PyDict(<< <<<<"c">>, PyValue("template", <<"C">>, 0, <<>>)>> >>)>> >> }

NodeCall == \E inp \in inputs, context \in NodeContexts : RenderSource(inp, context)

NodesInit ==
    /\ meta \in NodeMetas
    /\ inputs = {[name |-> <<"t","e","m","p","l","a","t","e">>, source |-> NodeSourceOf(meta)]}
    /\ TemplatesStart

NodesNext == NodeCall

SpecNodes == NodesInit /\ [][NodesNext]_vars

(***************************************************************************)
(* C11.  A for loop over n >= 1 items: the body sees loop.index that       *)
(* counts the iterations from 0, loop.first that is true on the first      *)
(* iteration only and loop.last that is true on the last iteration only.   *)
(* The render of a loop over [1, ..., n] whose body writes attributes of   *)
(* loop returns, for every iteration in turn, the values that the          *)
(* attributes have in it.                                                  *)
(***************************************************************************)
\* str of the attribute in the i-th of n iterations
LoopValue(attr, i, n) ==
    CASE attr = <<"i","n","d","e","x">> -> NatStr(i - 1)
      [] attr = <<"f","i","r","s","t">> -> IF i = 1 THEN <<"T","r","u","e">> ELSE <<"F","a","l","s","e">>
      [] attr = <<"l","a","s","t">> -> IF i = n THEN <<"T","r","u","e">> ELSE <<"F","a","l","s","e">>

\* what the body writes in the i-th of n iterations
RECURSIVE LoopIteration(_, _, _)
LoopIteration(chain, i, n) ==
    IF Len(chain) = 1 THEN LoopValue(chain[1], i, n)
    ELSE LoopValue(chain[1], i, n) \o <<"-">> \o LoopIteration(Tail(chain), i, n)

LoopObject ==
    (meta.kind = "for" /\ meta.sep = "loop" /\ tcall.op = "render") =>
        /\ tcall.result = "ok"
        /\ tcall.html = Flatten([i \in 1..meta.n |-> LoopIteration(meta.chain, i, meta.n)])

(***************************************************************************)
(* C12.  A Component node named n: when n is a key of                      *)
(* context["_components"], the output is the result of awaiting that       *)
(* component's render with the props built from the node's attributes and  *)
(* bindings; when it is not, the output is the rendering of the node's own *)
(* children, and no error is raised.  The children here are literal text,  *)
(* or there are none.                                                      *)
(***************************************************************************)
\* the items of the dictionary that the context has under the key, if any
ContextDict(context, key) ==
    IF HasKey(context, key) /\ GetKey(context, key).t = "dict" THEN GetKey(context, key).items
    ELSE <<>>

ComponentRendered ==
    (meta.kind = "component" /\ tcall.op = "render") =>
        /\ tcall.result = "ok"
        /\ tcall.html =
               IF HasKey(ContextDict(tcall.context, <<"_","c","o","m","p","o","n","e","n","t","s">>), meta.base.v)
               THEN GetKey(ContextDict(tcall.context, <<"_","c","o","m","p","o","n","e","n","t","s">>), meta.base.v).s
               ELSE meta.a

(***************************************************************************)
(* C13.  A Block node named n, with any number of children, none included: *)
(* the template compiles, and its render outputs the string that           *)
(* context["_blocks"] has for n when it has one, and the node's own        *)
(* children otherwise.                                                     *)
(***************************************************************************)
BlockRendered ==
    (meta.kind = "block" /\ tcall.op = "render") =>
        /\ tcall.compile \in {"ok", "hit"}
        /\ tcall.result = "ok"
        /\ tcall.html =
               IF HasKey(ContextDict(tcall.context, <<"_","b","l","o","c","k","s">>), meta.base.v)
               THEN GetKey(ContextDict(tcall.context, <<"_","b","l","o","c","k","s">>), meta.base.v).s
               ELSE meta.a

(***************************************************************************)
(* C15.  An element opened as one tag and closed as another, such as       *)
(* <div></span>, fails with a syntax error that names both tags: the       *)
(* Template of such a source raises TemplateSyntaxError.                   *)
(***************************************************************************)
MismatchRejected ==
    (meta.kind = "mismatch" /\ tcall.op = "render") =>
        /\ tcall.compile = "TemplateSyntaxError"
        /\ tcall.result = "TemplateSyntaxError"

(***************************************************************************)
(* C16.  A template of literal text and static elements only: render(ctx)  *)
(* returns the same string for every ctx, the empty one included.  Every   *)
(* render of such a source returns, and returns what the render before it  *)
(* returned.                                                               *)
(***************************************************************************)
StaticRender ==
    [][(meta.kind = "static" /\ tcall'.op = "render") =>
           /\ tcall'.result = "ok"
           /\ tcall.op = "render" => tcall'.html = tcall.html]_vars

(***************************************************************************)
(* C18.  The text between {% raw %} and {% endraw %} is rendered character *)
(* for character as it is in the source: nothing in it is escaped or       *)
(* evaluated, and its whitespace and quoting are kept.                     *)
(***************************************************************************)
RawVerbatim ==
    (meta.kind = "raw" /\ tcall.op = "render") =>
        /\ tcall.result = "ok"
        /\ tcall.html = meta.a

(***************************************************************************)
(* C19.  A source whose expression, statement, comment or setup-code       *)
(* delimiter is never closed fails in the lexer, with an error that cites  *)
(* the position of the opening delimiter: no token stream and no compiled  *)
(* template is produced, so that the Template of such a source raises      *)
(* TemplateSyntaxError and nothing is rendered.                            *)
(***************************************************************************)
UnclosedRejected ==
    (meta.kind = "unclosed" /\ tcall.op = "render") =>
        /\ tcall.compile = "TemplateSyntaxError"
        /\ tcall.result = "TemplateSyntaxError"
        /\ tcall.compiled = None

(***************************************************************************)
(* C20.  Every failure of lexing, parsing or code generation in the        *)
(* compilation of a Template reaches the caller as TemplateSyntaxError,    *)
(* with the template's name and the original message; no other exception  *)
(* escapes.  The compilation of every source either succeeds, or finds the *)
(* compiled template in the cache, or raises TemplateSyntaxError.          *)
(***************************************************************************)
CompileRaisesSyntaxError ==
    tcall.op = "render" => tcall.compile \in {"ok", "hit", "TemplateSyntaxError"}

(***************************************************************************)
(* Templates that extend templates.  The sources: a parent with the block  *)
(* n between brackets, a child that defines the block n, and a child whose *)
(* setup code writes the marker that Template._extract_blocks looks for.   *)
(***************************************************************************)
\* a source that is the block n with the content
BlockN(content) == <<"{","%"," ","b","l","o","c","k"," ","n"," ","%","}">> \o content \o <<"{","%"," ","e","n","d","b","l","o","c","k"," ","%","}">>

ParentSource == <<"[">> \o BlockN(<<"p","a","r","e","n","t">>) \o <<"]">>

ChildSource == BlockN(<<"c","h","i","l","d">>)

MarkerSource ==
    <<"<","p","y",">","_","a","p","p","e","n","d","(","'","<","d","i","v"," ","d","a","t","a","-","n","e","x","a","-","b","l","o","c","k","=","\"","n","\"",">","c","h","i","l","d","<","/","d","i","v",">","'",")","<","/","p","y",">">>

ExtendsInputs ==
    { [name |-> <<"p">>, source |-> ParentSource],
      [name |-> <<"c">>, source |-> ChildSource],
      [name |-> <<"q">>, source |-> MarkerSource] }

ExtendsInit ==
    /\ inputs = ExtendsInputs
    /\ meta = NoMeta
    /\ TemplatesStart

ExtendsNext ==
    \/ TemplateNew
    \/ TemplateExtends
    \/ TemplateRender

SpecExtends == ExtendsInit /\ [][ExtendsNext]_vars

(***************************************************************************)
(* C14.  After child.extends(parent), child.render(ctx) returns the        *)
(* parent's rendering in which every block that the child defines under    *)
(* the same name is replaced by the child's content for it.  The child     *)
(* defines the block n with the content `child`, the parent has the block  *)
(* n between brackets and no parent of its own.                            *)
(***************************************************************************)
InheritedBlocks ==
    (/\ tcall.op = "Template.render"
     /\ tcall.source = ChildSource
     /\ tcall.parent # None
     /\ templates[tcall.parent].source = ParentSource
     /\ templates[tcall.parent]._parent = None) =>
        /\ tcall.result = "ok"
        /\ tcall.html = <<"[","c","h","i","l","d","]">>

(***************************************************************************)
(* C22.  The render of an if chain with any number of elif branches and an *)
(* optional else branch, closed by one endif, returns the text of the      *)
(* first branch whose condition is true, the text of the else branch when  *)
(* every condition is false, and nothing when there is no else branch.     *)
(***************************************************************************)
FirstBranchRendered ==
    (meta.kind = "chain" /\ tcall.op = "render") =>
        /\ tcall.result = "ok"
        /\ tcall.html = IF \E i \in 1..Len(meta.chain) : meta.chain[i]
                        THEN NatStr(FirstOf({i \in 1..Len(meta.chain) : meta.chain[i]}))
                        ELSE IF meta.sep = "else" THEN <<"E">> ELSE <<>>

(***************************************************************************)
(* C23.  A template whose control blocks are unbalanced is rejected with a *)
(* syntax error: a source with an endif, endfor, endblock, endcomponent,   *)
(* endraw or else that no open block precedes, and a source whose if, for, *)
(* component or block is still open where it ends.                         *)
(***************************************************************************)
UnbalancedRejected ==
    (meta.kind = "unbalanced" /\ tcall.op = "render") =>
        tcall.result = "TemplateSyntaxError"

(***************************************************************************)
(* C24.  PyxmParser.parse terminates on every finite token stream: the     *)
(* parse of the tokens that the lexer returns for the rendered source      *)
(* returns the tree or raises, every iteration of its loops consumes a     *)
(* token, leaves the loop or raises.                                       *)
(***************************************************************************)
ParseTerminates ==
    tcall.op = "render" =>
        LET lexed == PyxmLexer("tokenize", <<tcall.source>>)
        IN  lexed.result = "ok" => PyxmParser("parse_tokens", <<lexed>>).result # "diverges"

(***************************************************************************)
(* Templates constructed by several threads at the same time: every        *)
(* Template(source, name) runs Template._compile, which takes no lock.  A  *)
(* thread executes one statement of _compile at a time (the call of        *)
(* cache.get, the parse and compilation, the call of cache.set); the       *)
(* statements of the threads interleave.                                   *)
(***************************************************************************)
\* the templates that the threads construct: one source under two names
CompilingInputs ==
    { [name |-> n, source |-> <<"h","i">>] : n \in { <<"a">>, <<"b">> } }

\* the input that the thread with frame f constructs its Template from
CompilingInput(f) == CHOOSE inp \in inputs : CacheKey(inp.name, inp.source) = f.key

\* Template(source, name) is called in thread t: __init__, and _compile up to
\* the call of cache.get (template.py:141-142)
compile_141(t, inp) ==
    /\ frame[t].pc = "idle"
    /\ Len(templates) < MaxTemplates
    /\ frame' = [frame EXCEPT ![t] = NewFrame("compile_144", CacheKey(inp.name, inp.source), None)]
    /\ UNCHANGED <<cachevars, apivars, lexvars, tplvars, compvars, envvars, parservars>>

\* template.py:144-147: cached = cache.get(cache_key), and the return with
\* the cached object
compile_144(t) ==
    /\ frame[t].pc = "compile_144"
    /\ LET g == cache_get(max_size, CS, frame[t].key)
           inp == CompilingInput(frame[t])
       IN  /\ _cache' = g.cs.cache
           /\ _access_order' = g.cs.order
           /\ IF g.f.ret # None
              THEN /\ templates' = Append(templates, [Template(inp.source, inp.name) EXCEPT !._compiled = g.f.ret])
                   /\ frame' = [frame EXCEPT ![t] = IdleFrame]
              ELSE /\ templates' = templates
                   /\ frame' = [frame EXCEPT ![t] = Goto(@, "compile_150")]
    /\ UNCHANGED <<max_size, objects, inputs, meta, tcall, apivars, lexvars, compvars, envvars, parservars>>

\* template.py:150-162: the parse and the compilation, which create the
\* CompiledTemplate object or raise TemplateSyntaxError
compile_150(t) ==
    /\ frame[t].pc = "compile_150"
    /\ LET inp == CompilingInput(frame[t])
           ast == parse(inp.source)
           c == compile(ast, inp.name)
       IN  IF ast.result # "ok" \/ c.err # ""
           THEN /\ objects' = objects
                /\ frame' = [frame EXCEPT ![t] = IdleFrame]
           ELSE /\ objects' = Append(objects, c.compiled)
                /\ frame' = [frame EXCEPT ![t] = [@ EXCEPT !.pc = "compile_165", !.template = Len(objects) + 1]]
    /\ UNCHANGED <<cachevars, inputs, meta, templates, tcall, apivars, lexvars, compvars, envvars, parservars>>

\* template.py:165: cache.set(cache_key, self._compiled), and the return
compile_165(t) ==
    /\ frame[t].pc = "compile_165"
    /\ LET s == cache_set(max_size, CS, frame[t].key, frame[t].template)
           inp == CompilingInput(frame[t])
       IN  /\ _cache' = s.cs.cache
           /\ _access_order' = s.cs.order
           /\ templates' = Append(templates, [Template(inp.source, inp.name) EXCEPT
                                                  !._ast = "PyxmAST", !._compiled = frame[t].template])
    /\ frame' = [frame EXCEPT ![t] = IdleFrame]
    /\ UNCHANGED <<max_size, objects, inputs, meta, tcall, apivars, lexvars, compvars, envvars, parservars>>

Compile141 == \E t \in Threads, inp \in inputs : compile_141(t, inp)
Compile144 == \E t \in Threads : compile_144(t)
Compile150 == \E t \in Threads : compile_150(t)
Compile165 == \E t \in Threads : compile_165(t)

CompilingInit ==
    /\ inputs = CompilingInputs
    /\ meta = NoMeta
    /\ TemplatesStart

CompilingNext ==
    \/ Compile141
    \/ Compile144
    \/ Compile150
    \/ Compile165

SpecCompiling == CompilingInit /\ [][CompilingNext]_vars

(***************************************************************************)
(* C25.  Template compilation never replaces the value stored under an     *)
(* existing cache key: a key that maps to a CompiledTemplate object maps   *)
(* to the same object after every step for as long as the key is cached,   *)
(* also when several compilations of one name and source run at the same   *)
(* time.                                                                   *)
(***************************************************************************)
CachedObjectKept ==
    [][\A k \in DOMAIN _cache \cap DOMAIN _cache' : _cache'[k] = _cache[k]]_vars

(***************************************************************************)
(* C26.  After any sequence of get, set and clear calls on a TemplateCache *)
(* of any capacity, 0 included, the cache holds at most max_size entries,  *)
(* the access-order list holds exactly the cached keys, each key once, and *)
(* no call has raised.                                                     *)
(***************************************************************************)
CacheWellFormed ==
    /\ Cardinality(DOMAIN _cache) <= max_size
    /\ {_access_order[i] : i \in 1..Len(_access_order)} = DOMAIN _cache
    /\ Len(_access_order) = Cardinality(DOMAIN _cache)
    /\ call.exc = ""

(***************************************************************************)
(* C27.  A statement whose keyword is not recognized is parsed into a      *)
(* Comment node, the parse continues with the tokens that follow it, and   *)
(* the node contributes no output: the tree of a{% STATEMENT %}{{ "x" }}   *)
(* is a text, a comment and an expression, and its render returns ax.      *)
(***************************************************************************)
UnknownStatementSkipped ==
    (meta.kind = "unknown" /\ tcall.op = "render") =>
        /\ tcall.result = "ok"
        /\ tcall.html = <<"a","x">>
        /\ LET ast == parse(tcall.source)
           IN  /\ ast.result = "ok"
               /\ [i \in 1..Len(ast.root.children) |-> ast.root.children[i].type]
                      = <<"TEXT", "COMMENT", "EXPRESSION">>

(***************************************************************************)
(* C28.  The names that the setup code of a template defines, wherever its *)
(* fragments stand in the document, are visible to the expressions of the  *)
(* template at render time: the render of a source with setup code returns *)
(* the values that its expressions have with the names defined.            *)
(***************************************************************************)
SetupNamesVisible ==
    (meta.kind = "setup" /\ tcall.op = "render") =>
        /\ tcall.result = "ok"
        /\ tcall.html = meta.b

(***************************************************************************)
(* A PyxmParser on token streams: PyxmParser.parse from the statement      *)
(* after `self.tokens = lexer.tokenize()`, for the tokens of an element    *)
(* div with its attributes and its content.                                *)
(***************************************************************************)
Tok(type, value) == Token(type, value, 1, 1)

\* the tokens of {% content %}
StatementTokens(content) ==
    <<Tok("STMT_OPEN", <<"{","%">>), Tok("STMT_CONTENT", content), Tok("STMT_CLOSE", <<"%","}">>)>>

\* the tokens of {{ x }}
ExpressionTokens ==
    <<Tok("EXPR_OPEN", <<"{","{">>), Tok("EXPR_CONTENT", <<"x">>), Tok("EXPR_CLOSE", <<"}","}">>)>>

\* the tokens of <tag attrs>children</tag>
ElementTokens(tag, attrs, children) ==
    <<Tok("TAG_OPEN", <<"<">>), Tok("TAG_NAME", tag)>> \o attrs \o <<Tok("TAG_CLOSE", <<">">>)>>
    \o children
    \o <<Tok("TAG_END_OPEN", <<"<","/">>), Tok("TAG_NAME", tag), Tok("TAG_CLOSE", <<">">>)>>

\* the tokens of :value="x" and of @click="go"
BindingTokens ==
    <<Tok("ATTR_BIND", <<"v","a","l","u","e">>), Tok("ATTR_EQUALS", <<"=">>), Tok("ATTR_VALUE", <<"x">>)>>

EventTokens ==
    <<Tok("EVENT_BIND", <<"c","l","i","c","k">>), Tok("ATTR_EQUALS", <<"=">>), Tok("ATTR_VALUE", <<"g","o">>)>>

\* the attributes of the element: none, a dynamic binding, an event binding
AttributeStreams == { <<>>, BindingTokens, EventTokens }

\* what the element holds innermost: text, an expression, a slot, a
\* statement that is a comment, <i :value="x"/>, and <b>t</b>
InnerStreams ==
    { <<Tok("TEXT", <<"t">>)>>,
      ExpressionTokens,
      StatementTokens(<<"s","l","o","t">>),
      StatementTokens(<<"f","o","o">>),
      <<Tok("TAG_OPEN", <<"<">>), Tok("TAG_NAME", <<"i">>)>> \o BindingTokens \o <<Tok("TAG_SELF_CLOSE", <<"/",">">>)>>,
      ElementTokens(<<"b">>, <<>>, <<Tok("TEXT", <<"t">>)>>) }

Wrappers == { "", "element", "if", "for", "component", "block" }

\* the inner tokens as they are, or inside an element p or a control block
Wrapped(w, inner) ==
    CASE w = "element" -> ElementTokens(<<"p">>, <<>>, inner)
      [] w = "if" -> StatementTokens(<<"i","f"," ","c">>) \o inner \o StatementTokens(<<"e","n","d","i","f">>)
      [] w = "for" -> StatementTokens(<<"f","o","r"," ","i"," ","i","n"," ","y">>) \o inner \o StatementTokens(<<"e","n","d","f","o","r">>)
      [] w = "component" -> StatementTokens(<<"c","o","m","p","o","n","e","n","t"," ","c">>) \o inner
                            \o StatementTokens(<<"e","n","d","c","o","m","p","o","n","e","n","t">>)
      [] w = "block" -> StatementTokens(<<"b","l","o","c","k"," ","n">>) \o inner \o StatementTokens(<<"e","n","d","b","l","o","c","k">>)
      [] OTHER -> inner

ParserStreams ==
    { Append(ElementTokens(<<"d","i","v">>, attrs, Wrapped(w, inner)), Token("EOF", <<>>, 1, 1)) :
          attrs \in AttributeStreams, w \in Wrappers, inner \in InnerStreams }

\* PyxmParser.parse, lines 552-570, with the tokens that the lexer returned
ParserParse ==
    \E toks \in ParserStreams :
        /\ parser_ast' = parse_tokens([result |-> "ok", tokens |-> toks])
        /\ UNCHANGED <<lexvars, cachevars, apivars, frame, tplvars, compvars, envvars>>

ParserInit ==
    /\ meta = NoMeta
    /\ inputs = {}
    /\ TemplatesStart

ParserNext == ParserParse

SpecParser == ParserInit /\ [][ParserNext]_vars

\* a node and its descendants
RECURSIVE Descendants(_)
Descendants(node) ==
    {node} \cup UNION { Descendants(node.children[i]) : i \in 1..Len(node.children) }

\* the node carries a dynamic binding or an event binding, or is an
\* expression or a control node
Dynamic(node) ==
    \/ node.bindings # <<>>
    \/ node.events # <<>>
    \/ node.type \in {"EXPRESSION", "IF", "ELIF", "FOR", "COMPONENT", "SLOT", "BLOCK"}

RegionEndsAtOwnDelimiter ==
    (lexpc = "returned" /\ source \in NestedSamples) =>
        /\ Len(tokens) = 4
        /\ tokens[2].type \in {"EXPR_CONTENT", "STMT_CONTENT"}
        /\ tokens[2].value = Strip(Slice(source, 2, Len(source) - 2))

(***************************************************************************)
(* A TemplateEnvironment over a template directory: filters are registered *)
(* on it and the templates of the directory are rendered through it.       *)
(***************************************************************************)
\* the names that filters are registered under: one that no builtin filter
\* has, and the name of a builtin filter
FilterNames == { <<"s","h","o","u","t">>, <<"u","p","p","e","r">> }

\* the functions registered: str.upper and str.lower
FilterFunctions == { PyFunc(<<"u","p","p","e","r">>), PyFunc(<<"l","o","w","e","r">>) }

\* the string that the templates filter
Filtee == <<"a","B","<">>

\* the files of the template directory t: {{ "aB<" | NAME }} in the file NAME
EnvFiles ==
    { [name |-> <<"t","/">> \o f, source |-> <<"{","{"," ">> \o repr(Filtee) \o <<" ","|"," ">> \o f \o <<" ","}","}">>] :
        f \in FilterNames }

EnvContexts ==
    { <<>>,
      << <<<<"x">>, PyStr(<<"a","B","<">>)>> >> }

\* TemplateEnvironment.render, lines 452-459: the globals (none are added)
\* updated with the context, and the filters under "_filters"
full_context(context) ==
    PairsPut(context, <<"_","f","i","l","t","e","r","s">>, PyDict(env_filters))

\* env.add_filter(name, func), env.filters[name] = func
add_filter(name, func) ==
    /\ tcall.result # "diverges"
    /\ env_filters' = PairsPut(env_filters, name, func)
    /\ UNCHANGED <<lexvars, cachevars, apivars, frame, tplvars, compvars, parservars>>

\* env.render(name, context): the template is loaded from its file by
\* TemplateLoader.load and Template.from_file, and rendered
TemplateEnvironment_render(inp, context) ==
    /\ tcall.result # "diverges"
    /\ Returned("TemplateEnvironment.render", inp.name, inp.source, full_context(context),
                render_constructed(Template_init(inp.source, inp.name, TRUE, max_size, CS, objects),
                                   full_context(context), max_size))
    /\ UNCHANGED <<max_size, inputs, meta, templates, lexvars, apivars, frame, compvars, envvars, parservars>>

EnvAddFilter == \E name \in FilterNames, func \in FilterFunctions : add_filter(name, func)

EnvRender == \E inp \in inputs, context \in EnvContexts : TemplateEnvironment_render(inp, context)

EnvInit ==
    /\ meta = NoMeta
    /\ inputs = EnvFiles
    /\ TemplatesStart

EnvNext ==
    \/ EnvAddFilter
    \/ EnvRender

SpecEnv == EnvInit /\ [][EnvNext]_vars

\* what the function f returns for the string v
FilterResult(f, v) == IF f = PyFunc(<<"u","p","p","e","r">>) THEN ToUpper(v) ELSE ToLower(v)

\* the last call rendered the file of the filter name f through the
\* environment while the name f was registered on the environment
RenderedWithFilter(f) ==
    /\ tcall.op = "TemplateEnvironment.render"
    /\ tcall.name = <<"t","/">> \o f
    /\ HasKey(GetKey(tcall.context, <<"_","f","i","l","t","e","r","s">>).items, f)

(***************************************************************************)
(* C21.  A filter registered on a TemplateEnvironment is the function      *)
(* applied when a template rendered through that environment names it in   *)
(* a filter chain: the render of {{ "aB<" | f }} returns the escaped       *)
(* result of the function registered under f for the string.               *)
(***************************************************************************)
RegisteredFilterApplied ==
    \A f \in FilterNames :
        RenderedWithFilter(f) =>
            /\ tcall.result = "ok"
            /\ tcall.html = html_escape(FilterResult(GetKey(GetKey(tcall.context, <<"_","f","i","l","t","e","r","s">>).items, f),
                                                     Filtee))

(***************************************************************************)
(* PyxmCompiler instances and the compilations made on them: of source     *)
(* text, parsed by a PyxmParser of its own, and of trees that a caller of  *)
(* PyxmCompiler.compile builds from PyxmNode, with elements that carry     *)
(* bindings and events.                                                    *)
(***************************************************************************)
MaxCompilers == 2
MaxCompilations == 3

CompileSources == { <<"{","{"," ","x"," ","}","}">> }

\* <div id="a" :value="x" @click="go"><input :value="y" @input="set"/></div>
ElementTree ==
    [result |-> "ok",
     root |-> add_child(Node("ROOT"),
                        [Node("ELEMENT") EXCEPT
                            !.tag = <<<<"d","i","v">>>>,
                            !.attributes = << <<<<"i","d">>, <<<<"a">>>>>> >>,
                            !.bindings = << <<<<"v","a","l","u","e">>, <<"x">>>> >>,
                            !.events = << <<<<"c","l","i","c","k">>, <<"g","o">>>> >>,
                            !.children = << [Node("ELEMENT") EXCEPT
                                                !.tag = <<<<"i","n","p","u","t">>>>,
                                                !.bindings = << <<<<"v","a","l","u","e">>, <<"y">>>> >>,
                                                !.events = << <<<<"i","n","p","u","t">>, <<"s","e","t">>>> >>,
                                                !.is_self_closing = TRUE] >>]),
     python_blocks |-> <<>>]

CompileTrees == {ElementTree}

\* PyxmCompiler()
Compiler ==
    /\ Len(compilers) < MaxCompilers
    /\ compilers' = Append(compilers, NewPyxmCompiler)
    /\ UNCHANGED <<compilations, lexvars, cachevars, apivars, frame, tplvars, envvars, parservars>>

\* compilers[k].compile(ast, name), given the instance and the result r that
\* the call leaves
Compiled(k, ast, r) ==
    /\ compilers' = [compilers EXCEPT ![k] = r.self]
    /\ compilations' = Append(compilations, [compiler |-> k, ast |-> ast, result |-> r.result])
    /\ UNCHANGED <<lexvars, cachevars, apivars, frame, tplvars, envvars, parservars>>

\* compilers[k].compile(PyxmParser().parse(src))
CompileSource(k, src) ==
    /\ Len(compilations) < MaxCompilations
    /\ parse(src).result = "ok"
    /\ Compiled(k, parse(src), PyxmCompiler_compile(compilers[k], parse(src), <<"t","e","m","p","l","a","t","e">>))

\* compilers[k].compile(ast) of a tree
CompileTree(k, ast) ==
    /\ Len(compilations) < MaxCompilations
    /\ Compiled(k, ast, PyxmCompiler_compile(compilers[k], ast, <<"t","e","m","p","l","a","t","e">>))

CompilerNew == Compiler

CompilerCompileSource == \E k \in 1..Len(compilers), src \in CompileSources : CompileSource(k, src)

CompilerCompileTree == \E k \in 1..Len(compilers), ast \in CompileTrees : CompileTree(k, ast)

CompileInit ==
    /\ EnvIdle
    /\ ParserIdle
    /\ compilers = <<>>
    /\ compilations = <<>>
    /\ inputs = {}
    /\ meta = NoMeta
    /\ max_size = DefaultMaxSize
    /\ _cache = EmptyDict
    /\ _access_order = <<>>
    /\ templates = <<>>
    /\ objects = <<>>
    /\ tcall = NoRender
    /\ ApiIdle
    /\ ThreadsIdle
    /\ LexIdle

CompileNext ==
    \/ CompilerNew
    \/ CompilerCompileSource
    \/ CompilerCompileTree

SpecCompile == CompileInit /\ [][CompileNext]_vars

====
